---- MODULE Spec2Model ----
(***************************************************************************)
(* Model of the todo command-line program: the store (src/src/db.c), the   *)
(* recurrence pass and the command dispatcher (src/src/cli.c).             *)
(*                                                                         *)
(* C strings are sequences of one-character strings; a NULL pointer is the *)
(* value NULL.  Instants are Unix seconds; the local zone is UTC.  A NULL  *)
(* timestamp column reads back as 0, as sqlite3_column_int64 returns it.   *)
(***************************************************************************)
EXTENDS Integers, Sequences, FiniteSets, TLC

(***************************************************************************)
(* Bounds of the model.                                                    *)
(***************************************************************************)
\* Largest id the AUTOINCREMENT counter hands out in a behaviour.
MaxId == 3
\* Number of process invocations (command lines) in a behaviour.
MaxCmds == 3

(***************************************************************************)
(* Program constants.                                                      *)
(***************************************************************************)
TODO_TITLE_MAX == 256
TODO_DESC_MAX == 1024
TODO_CATEGORY_MAX == 64
PRIORITY_MEDIUM == 2
STATUS_PENDING == 0
STATUS_COMPLETED == 1
STATUS_ALL == -1
MAX_IDS == 100

NULL == <<"<null>">>
General == <<"G", "e", "n", "e", "r", "a", "l">>

Min(a, b) == IF a < b THEN a ELSE b

(***************************************************************************)
(* libc string helpers as the callers use them.                            *)
(***************************************************************************)
IsDigit(c) == c \in {"0", "1", "2", "3", "4", "5", "6", "7", "8", "9"}

DigitVal(c) ==
    CASE c = "0" -> 0 [] c = "1" -> 1 [] c = "2" -> 2 [] c = "3" -> 3
      [] c = "4" -> 4 [] c = "5" -> 5 [] c = "6" -> 6 [] c = "7" -> 7
      [] c = "8" -> 8 [] c = "9" -> 9

\* Index of the first character at or after pos that is not a space.
RECURSIVE SkipSpaces(_, _)
SkipSpaces(s, pos) ==
    IF pos <= Len(s) /\ s[pos] = " " THEN SkipSpaces(s, pos + 1) ELSE pos

\* Value of the digit run starting at pos, at most maxDigits long, and the
\* index just after it: <<value, next>>.
RECURSIVE DigitRun(_, _, _, _)
DigitRun(s, pos, acc, maxDigits) ==
    IF pos <= Len(s) /\ maxDigits > 0 /\ IsDigit(s[pos])
    THEN DigitRun(s, pos + 1, acc * 10 + DigitVal(s[pos]), maxDigits - 1)
    ELSE <<acc, pos>>

\* strtol(str, &endptr, 10): leading spaces, an optional sign, digits.
\* end is the index endptr points at (Len + 1 is the terminating NUL); with
\* no digits the conversion fails: value 0 and endptr = str.
strtol(s) ==
    LET p0 == SkipSpaces(s, 1)
        neg == p0 <= Len(s) /\ s[p0] = "-"
        p1 == IF p0 <= Len(s) /\ s[p0] \in {"-", "+"} THEN p0 + 1 ELSE p0
        run == DigitRun(s, p1, 0, Len(s))
    IN  IF run[2] = p1
        THEN [val |-> 0, end |-> 1]
        ELSE [val |-> IF neg THEN 0 - run[1] ELSE run[1], end |-> run[2]]

atoi(s) == strtol(s).val

\* strncpy(dst, src, n - 1); dst[n - 1] = '\0'
strncpy(s, n) == SubSeq(s, 1, Min(Len(s), n - 1))

islower_chars ==
    <<"a", "b", "c", "d", "e", "f", "g", "h", "i", "j", "k", "l", "m",
      "n", "o", "p", "q", "r", "s", "t", "u", "v", "w", "x", "y", "z">>

toupper_chars ==
    <<"A", "B", "C", "D", "E", "F", "G", "H", "I", "J", "K", "L", "M",
      "N", "O", "P", "Q", "R", "S", "T", "U", "V", "W", "X", "Y", "Z">>

\* toupper in the C locale: a lower-case letter maps to its upper-case one.
toupper(c) ==
    IF \E k \in 1..26 : islower_chars[k] = c
    THEN toupper_chars[CHOOSE k \in 1..26 : islower_chars[k] = c]
    ELSE c

capitalize_first(s) ==
    IF s # NULL /\ Len(s) > 0 THEN <<toupper(s[1])>> \o Tail(s) ELSE s

(***************************************************************************)
(* localtime / mktime in the UTC zone: the proleptic Gregorian calendar.   *)
(***************************************************************************)
days_from_civil(y0, m, d) ==
    LET y == IF m <= 2 THEN y0 - 1 ELSE y0
        era == y \div 400
        yoe == y - era * 400
        mp == IF m > 2 THEN m - 3 ELSE m + 9
        doy == (153 * mp + 2) \div 5 + d - 1
        doe == yoe * 365 + yoe \div 4 - yoe \div 100 + doy
    IN  era * 146097 + doe - 719468

civil_from_days(z0) ==
    LET z == z0 + 719468
        era == z \div 146097
        doe == z - era * 146097
        yoe == (doe - doe \div 1460 + doe \div 36524 - doe \div 146096) \div 365
        doy == doe - (365 * yoe + yoe \div 4 - yoe \div 100)
        mp == (5 * doy + 2) \div 153
        d == doy - (153 * mp + 2) \div 5 + 1
        m == IF mp < 10 THEN mp + 3 ELSE mp - 9
    IN  [year |-> yoe + era * 400 + (IF m <= 2 THEN 1 ELSE 0), mon |-> m, mday |-> d]

\* struct tm with tm_mon counted from 1 and tm_year the calendar year.
localtime(t) ==
    LET c == civil_from_days(t \div 86400)
        r == t % 86400
    IN  [year |-> c.year, mon |-> c.mon, mday |-> c.mday,
         hour |-> r \div 3600, min |-> (r % 3600) \div 60, sec |-> r % 60]

\* mktime normalises an out-of-range month into the year and lets an
\* out-of-range day run over into the following months.
mktime(tm) ==
    LET m0 == tm.mon - 1
        y == tm.year + m0 \div 12
        m == (m0 % 12) + 1
    IN  (days_from_civil(y, m, 1) + tm.mday - 1) * 86400
          + tm.hour * 3600 + tm.min * 60 + tm.sec

add_months(base, months) ==
    LET tm_info == localtime(base)
    IN  mktime([tm_info EXCEPT !.mon = @ + months])

(***************************************************************************)
(* Option-value parsers of the dispatcher.                                 *)
(***************************************************************************)
\* get_number of strptime: optional spaces, then one to maxDigits digits
\* whose value lies in lo..hi.
StrpNum(s, pos, lo, hi, maxDigits) ==
    LET p0 == SkipSpaces(s, pos)
        run == DigitRun(s, p0, 0, maxDigits)
    IN  [ok |-> run[2] > p0 /\ run[1] >= lo /\ run[1] <= hi,
         val |-> run[1], next |-> run[2]]

StrpLit(s, pos, c) == pos <= Len(s) /\ s[pos] = c

\* strptime(date_str, "%Y-%m-%d", &tm): ok and the index after the match.
StrpDate(s) ==
    LET y == StrpNum(s, 1, 0, 9999, 4)
        m == StrpNum(s, y.next + 1, 1, 12, 2)
        d == StrpNum(s, m.next + 1, 1, 31, 2)
    IN  IF y.ok /\ StrpLit(s, y.next, "-") /\ m.ok /\ StrpLit(s, m.next, "-") /\ d.ok
        THEN [ok |-> TRUE, year |-> y.val, mon |-> m.val, mday |-> d.val, next |-> d.next]
        ELSE [ok |-> FALSE, year |-> 0, mon |-> 0, mday |-> 0, next |-> 1]

\* strptime(date_str, "%Y-%m-%d %H:%M", &tm)
StrpDateTime(s) ==
    LET dt == StrpDate(s)
        h == StrpNum(s, SkipSpaces(s, dt.next), 0, 23, 2)
        mi == StrpNum(s, h.next + 1, 0, 59, 2)
    IN  IF dt.ok /\ h.ok /\ StrpLit(s, h.next, ":") /\ mi.ok
        THEN [ok |-> TRUE, hour |-> h.val, min |-> mi.val]
        ELSE [ok |-> FALSE, hour |-> 0, min |-> 0]

\* The struct tm parse_due_date hands to mktime, ok = FALSE where it returns
\* 0: conv is strtol's result, tm_now is localtime(&now), dt and dtm are the
\* results of the two strptime calls.
parse_due_date_tm(date_str, len, conv, tm_now, dt, dtm) ==
    IF len >= 2
       /\ date_str[len] \in {"d", "D", "w", "W", "m", "M", "y", "Y"}
       /\ conv.end = len /\ conv.val > 0
    THEN [ok |-> TRUE,
          tm |-> CASE date_str[len] \in {"d", "D"} ->
                        [tm_now EXCEPT !.hour = 23, !.min = 59, !.sec = 59,
                                       !.mday = @ + conv.val]
                   [] date_str[len] \in {"w", "W"} ->
                        [tm_now EXCEPT !.hour = 23, !.min = 59, !.sec = 59,
                                       !.mday = @ + conv.val * 7]
                   [] date_str[len] \in {"m", "M"} ->
                        [tm_now EXCEPT !.hour = 23, !.min = 59, !.sec = 59,
                                       !.mon = @ + conv.val]
                   [] date_str[len] \in {"y", "Y"} ->
                        [tm_now EXCEPT !.hour = 23, !.min = 59, !.sec = 59,
                                       !.year = @ + conv.val]]
    ELSE IF dtm.ok
    THEN [ok |-> TRUE,
          tm |-> [year |-> dt.year, mon |-> dt.mon, mday |-> dt.mday,
                  hour |-> dtm.hour, min |-> dtm.min, sec |-> 0]]
    ELSE IF dt.ok
    THEN [ok |-> TRUE,
          tm |-> [year |-> dt.year, mon |-> dt.mon, mday |-> dt.mday,
                  hour |-> 23, min |-> 59, sec |-> 59]]
    ELSE [ok |-> FALSE, tm |-> tm_now]

\* The return statement parse_due_date reaches: mktime, or 0 on failure.
parse_due_date_return(r) == IF r.ok THEN mktime(r.tm) ELSE 0

parse_due_date(date_str, t) ==
    IF date_str = NULL THEN 0
    ELSE parse_due_date_return(
             parse_due_date_tm(date_str, Len(date_str), strtol(date_str),
                               localtime(t), StrpDate(date_str),
                               StrpDateTime(date_str)))

\* parse_repeat_interval without the two resets at its top: an out-parameter
\* the call does not assign keeps the value it had.
parse_repeat_interval_keeping(str, days0, months0) ==
    LET len == Len(str)
        unit == str[len]
        conv == strtol(str)
        fail == [ret |-> 0, days |-> days0, months |-> months0]
    IN  IF str = NULL \/ len < 2 THEN fail
        ELSE IF conv.end # len \/ conv.val <= 0 THEN fail
        ELSE IF unit \in {"d", "D"}
        THEN IF conv.val > 365 THEN fail
             ELSE [ret |-> 1, days |-> conv.val, months |-> months0]
        ELSE IF unit \in {"m", "M"}
        THEN IF conv.val > 12 THEN fail
             ELSE [ret |-> 1, days |-> days0, months |-> conv.val]
        ELSE fail

\* parse_repeat_interval(str, &days, &months): days0 and months0 are the
\* values the two out-parameters hold on entry.
parse_repeat_interval(str, days0, months0) ==
    LET len == Len(str)
        unit == str[len]
        conv == strtol(str)
        fail == [ret |-> 0, days |-> 0, months |-> 0]
    IN  IF str = NULL \/ len < 2 THEN fail
        ELSE IF conv.end # len \/ conv.val <= 0 THEN fail
        ELSE IF unit \in {"d", "D"}
        THEN IF conv.val > 365 THEN fail
             ELSE [ret |-> 1, days |-> conv.val, months |-> 0]
        ELSE IF unit \in {"m", "M"}
        THEN IF conv.val > 12 THEN fail
             ELSE [ret |-> 1, days |-> 0, months |-> conv.val]
        ELSE fail

\* strtok(copy, ","): the maximal comma-free runs, empty runs skipped.
RECURSIVE strtok(_, _, _)
strtok(s, pos, cur) ==
    IF pos > Len(s)
    THEN IF cur = <<>> THEN <<>> ELSE <<cur>>
    ELSE IF s[pos] = ","
    THEN (IF cur = <<>> THEN <<>> ELSE <<cur>>) \o strtok(s, pos + 1, <<>>)
    ELSE strtok(s, pos + 1, Append(cur, s[pos]))

\* Index of the last character of s that is not a trailing space, never
\* moving below the first character.
RECURSIVE TrimEnd(_, _)
TrimEnd(s, end) ==
    IF end > 1 /\ s[end] = " " THEN TrimEnd(s, end - 1) ELSE end

\* One token of the bracket list: leading spaces skipped, trailing spaces cut.
TrimToken(tok) ==
    LET lead == SubSeq(tok, SkipSpaces(tok, 1), Len(tok))
    IN  IF lead = <<>> THEN <<>> ELSE SubSeq(lead, 1, TrimEnd(lead, Len(lead)))

\* The token loop of parse_ids: ret is 0 on success, -1 on the first error.
RECURSIVE ParseIdTokens(_, _, _)
ParseIdTokens(toks, k, ids) ==
    IF k > Len(toks) THEN [ret |-> 0, ids |-> ids]
    ELSE LET token == TrimToken(toks[k])
             conv == strtol(token)
         IN  IF Len(token) = 0 THEN [ret |-> -1, ids |-> ids]
             ELSE IF conv.end # Len(token) + 1 \/ conv.val <= 0
             THEN [ret |-> -1, ids |-> ids]
             ELSE IF Len(ids) >= MAX_IDS THEN [ret |-> -1, ids |-> ids]
             ELSE ParseIdTokens(toks, k + 1, Append(ids, conv.val))

parse_ids(arg) ==
    LET len == Len(arg)
        conv == strtol(arg)
        fail == [ret |-> -1, ids |-> <<>>]
    IN  IF arg = NULL \/ len = 0 THEN fail
        ELSE IF arg[1] = "["
        THEN IF len < 3 \/ arg[len] # "]" THEN fail
             ELSE LET r == ParseIdTokens(strtok(SubSeq(arg, 2, len - 1), 1, <<>>), 1, <<>>)
                  IN  IF r.ret # 0 THEN r
                      ELSE IF Len(r.ids) = 0 THEN fail
                      ELSE r
        ELSE IF conv.end # len + 1 \/ conv.val <= 0 THEN fail
        ELSE [ret |-> 0, ids |-> <<conv.val>>]

parse_status(status_str) ==
    IF status_str = NULL THEN STATUS_ALL
    ELSE IF status_str = <<"p", "e", "n", "d", "i", "n", "g">> THEN STATUS_PENDING
    ELSE IF status_str = <<"c", "o", "m", "p", "l", "e", "t", "e", "d">> THEN STATUS_COMPLETED
    ELSE STATUS_ALL

(***************************************************************************)
(* The option loop of cli_run.  A command line is a sequence of options    *)
(* [opt, optarg] as getopt_long hands them out.                            *)
(***************************************************************************)
\* The locals of cli_run before the first option; ret = -1 while running.
CliLocals ==
    [cmd |-> "CMD_NONE", add_title |-> NULL, edit_title |-> NULL,
     description |-> NULL, category |-> NULL, status_str |-> NULL,
     priority |-> 0, target_id |-> 0, delete_arg |-> NULL,
     complete_arg |-> NULL, due_date |-> 0, repeat_days |-> 0,
     repeat_months |-> 0, since_date |-> 0, ret |-> -1]

\* case 'p' without the range test.
OptionPriority_unchecked(v, pri) == [v EXCEPT !.priority = pri]

\* case 'p': priority = atoi(optarg), return 1 unless it is 1, 2 or 3.
OptionPriority(v, pri) ==
    IF pri < 1 \/ pri > 3
    THEN [v EXCEPT !.priority = pri, !.ret = 1]
    ELSE [v EXCEPT !.priority = pri]

\* The switch on opt: due, rep and pri are what parse_due_date,
\* parse_repeat_interval and atoi make of optarg.
OptionSwitch(v, opt, optarg, due, rep, pri) ==
    CASE opt = "a" -> [v EXCEPT !.cmd = "CMD_ADD", !.add_title = optarg]
      [] opt = "l" -> [v EXCEPT !.cmd = "CMD_LIST"]
      [] opt = "C" -> [v EXCEPT !.cmd = "CMD_COMPLETE", !.complete_arg = optarg]
      [] opt = "D" -> [v EXCEPT !.cmd = "CMD_DELETE", !.delete_arg = optarg]
      [] opt = "e" -> [v EXCEPT !.cmd = "CMD_EDIT", !.target_id = pri]
      [] opt = "S" -> [v EXCEPT !.cmd = "CMD_SHOW", !.target_id = pri]
      [] opt = "R" ->
           IF due = 0
           THEN [v EXCEPT !.cmd = "CMD_COMPLETED_SINCE", !.ret = 1]
           ELSE [v EXCEPT !.cmd = "CMD_COMPLETED_SINCE",
                          !.since_date = mktime([localtime(due) EXCEPT
                              !.hour = 0, !.min = 0, !.sec = 0])]
      [] opt = "T" -> [v EXCEPT !.cmd = "CMD_TODAY"]
      [] opt = "W" -> [v EXCEPT !.cmd = "CMD_WEEK"]
      [] opt = "M" -> [v EXCEPT !.cmd = "CMD_MONTH"]
      [] opt = "E" -> [v EXCEPT !.cmd = "CMD_SCHEDULE"]
      [] opt = "h" -> [v EXCEPT !.cmd = "CMD_HELP"]
      [] opt = "A" -> [v EXCEPT !.cmd = "CMD_CATEGORIES"]
      [] opt = "t" -> [v EXCEPT !.edit_title = optarg]
      [] opt = "d" -> [v EXCEPT !.description = optarg]
      [] opt = "c" -> [v EXCEPT !.category = capitalize_first(optarg)]
      [] opt = "p" -> OptionPriority(v, pri)
      [] opt = "s" -> [v EXCEPT !.status_str = optarg]
      [] opt = "u" ->
           IF due = 0
           THEN [v EXCEPT !.due_date = due, !.ret = 1]
           ELSE [v EXCEPT !.due_date = due]
      [] opt = "r" ->
           IF rep.ret = 0
           THEN [v EXCEPT !.repeat_days = rep.days, !.repeat_months = rep.months,
                          !.ret = 1]
           ELSE [v EXCEPT !.repeat_days = rep.days, !.repeat_months = rep.months]
      [] OTHER -> [v EXCEPT !.ret = 1]

\* One iteration of the while loop.
OptionCase(v, o, t) ==
    OptionSwitch(v, o.opt, o.optarg, parse_due_date(o.optarg, t),
                 parse_repeat_interval(o.optarg, v.repeat_days, v.repeat_months),
                 atoi(o.optarg))

\* The while loop over getopt_long, from option k on; it stops at the first
\* return.
RECURSIVE OptionLoop(_, _, _, _)
OptionLoop(argv, k, v, t) ==
    IF k > Len(argv) \/ v.ret # -1 THEN v
    ELSE OptionLoop(argv, k + 1, OptionCase(v, argv[k], t), t)

\* The locals of cli_run when the option loop is left, at time t.
cli_run_options(argv, t) == OptionLoop(argv, 1, CliLocals, t)

(***************************************************************************)
(* The store: table todos as a function from id to row.                    *)
(***************************************************************************)
\* A row as the column readers copy it into a Todo.
ReadRow(id, row) ==
    [id |-> id,
     title |-> strncpy(row.title, TODO_TITLE_MAX),
     description |-> strncpy(row.description, TODO_DESC_MAX),
     category |-> strncpy(row.category, TODO_CATEGORY_MAX),
     priority |-> row.priority, status |-> row.status,
     created_at |-> row.created_at, completed_at |-> row.completed_at,
     due_date |-> row.due_date, repeat_days |-> row.repeat_days,
     repeat_months |-> row.repeat_months, spawned_next |-> row.spawned_next]

\* db_add_todo that binds the default category whatever category it is given.
db_add_todo_default_category(ts, new_id, title, description, category, priority, due_date, repeat_days, repeat_months, t) ==
    [id \in DOMAIN ts \cup {new_id} |->
        IF id = new_id
        THEN [title |-> title,
              description |-> IF description # NULL THEN description ELSE <<>>,
              category |-> General,
              priority |-> IF priority > 0 THEN priority ELSE PRIORITY_MEDIUM,
              status |-> 0,
              created_at |-> t,
              completed_at |-> 0,
              due_date |-> IF due_date > 0 THEN due_date ELSE 0,
              repeat_days |-> IF repeat_days > 0 THEN repeat_days ELSE 0,
              repeat_months |-> IF repeat_months > 0 THEN repeat_months ELSE 0,
              spawned_next |-> 0]
        ELSE ts[id]]

\* INSERT INTO todos: the row stored under the next AUTOINCREMENT id.
db_add_todo(ts, new_id, title, description, category, priority, due_date, repeat_days, repeat_months, t) ==
    [id \in DOMAIN ts \cup {new_id} |->
        IF id = new_id
        THEN [title |-> title,
              description |-> IF description # NULL THEN description ELSE <<>>,
              category |-> IF category # NULL THEN category ELSE General,
              priority |-> IF priority > 0 THEN priority ELSE PRIORITY_MEDIUM,
              status |-> 0,
              created_at |-> t,
              completed_at |-> 0,
              due_date |-> IF due_date > 0 THEN due_date ELSE 0,
              repeat_days |-> IF repeat_days > 0 THEN repeat_days ELSE 0,
              repeat_months |-> IF repeat_months > 0 THEN repeat_months ELSE 0,
              spawned_next |-> 0]
        ELSE ts[id]]

db_get_todo_by_id(ts, id) ==
    IF id \in DOMAIN ts
    THEN [ret |-> 0, todo |-> ReadRow(id, ts[id])]
    ELSE [ret |-> -1, todo |-> <<>>]

\* db_update_todo whose UPDATE also rewrites spawned_next with its default.
db_update_todo_resetting_spawned(ts, id, title, description, category, priority, due_date) ==
    LET got == db_get_todo_by_id(ts, id)
        current == got.todo
        effective_due == IF due_date > 0 THEN due_date ELSE current.due_date
    IN  IF got.ret # 0 THEN [ret |-> -1, todos |-> ts]
        ELSE [ret |-> 0,
              todos |-> [ts EXCEPT ![id] =
                  [@ EXCEPT !.title = IF title # NULL THEN title ELSE current.title,
                            !.description = IF description # NULL THEN description
                                            ELSE current.description,
                            !.category = IF category # NULL THEN category
                                         ELSE current.category,
                            !.priority = IF priority > 0 THEN priority
                                         ELSE current.priority,
                            !.due_date = IF effective_due > 0 THEN effective_due
                                         ELSE 0,
                            !.spawned_next = 0]]]

\* db_update_todo binding priority as given, without the fallback to the
\* current value.
db_update_todo_priority_as_given(ts, id, title, description, category, priority, due_date) ==
    LET got == db_get_todo_by_id(ts, id)
        current == got.todo
        effective_due == IF due_date > 0 THEN due_date ELSE current.due_date
    IN  IF got.ret # 0 THEN [ret |-> -1, todos |-> ts]
        ELSE [ret |-> 0,
              todos |-> [ts EXCEPT ![id] =
                  [@ EXCEPT !.title = IF title # NULL THEN title ELSE current.title,
                            !.description = IF description # NULL THEN description
                                            ELSE current.description,
                            !.category = IF category # NULL THEN category
                                         ELSE current.category,
                            !.priority = priority,
                            !.due_date = IF effective_due > 0 THEN effective_due
                                         ELSE 0]]]

db_update_todo(ts, id, title, description, category, priority, due_date) ==
    LET got == db_get_todo_by_id(ts, id)
        current == got.todo
        effective_due == IF due_date > 0 THEN due_date ELSE current.due_date
    IN  IF got.ret # 0 THEN [ret |-> -1, todos |-> ts]
        ELSE [ret |-> 0,
              todos |-> [ts EXCEPT ![id] =
                  [@ EXCEPT !.title = IF title # NULL THEN title ELSE current.title,
                            !.description = IF description # NULL THEN description
                                            ELSE current.description,
                            !.category = IF category # NULL THEN category
                                         ELSE current.category,
                            !.priority = IF priority > 0 THEN priority
                                         ELSE current.priority,
                            !.due_date = IF effective_due > 0 THEN effective_due
                                         ELSE 0]]]

db_delete_todo(ts, id) ==
    IF id \in DOMAIN ts
    THEN [ret |-> 0, todos |-> [i \in DOMAIN ts \ {id} |-> ts[i]]]
    ELSE [ret |-> -1, todos |-> ts]

\* db_complete_todo whose UPDATE sets status alone.
db_complete_todo_status_only(ts, id, t) ==
    IF id \in DOMAIN ts
    THEN [ret |-> 0, todos |-> [ts EXCEPT ![id] = [@ EXCEPT !.status = 1]]]
    ELSE [ret |-> -1, todos |-> ts]

db_complete_todo(ts, id, t) ==
    IF id \in DOMAIN ts
    THEN [ret |-> 0, todos |-> [ts EXCEPT ![id] = [@ EXCEPT !.status = 1, !.completed_at = t]]]
    ELSE [ret |-> -1, todos |-> ts]

db_uncomplete_todo(ts, id) ==
    IF id \in DOMAIN ts
    THEN [ret |-> 0, todos |-> [ts EXCEPT ![id] = [@ EXCEPT !.status = 0, !.completed_at = 0]]]
    ELSE [ret |-> -1, todos |-> ts]

\* An UPDATE that sets no spawned_next.
db_mark_spawned_no_update(ts, id) == [ret |-> 0, todos |-> ts]

db_mark_spawned(ts, id) ==
    IF id \in DOMAIN ts
    THEN [ret |-> 0, todos |-> [ts EXCEPT ![id] = [@ EXCEPT !.spawned_next = 1]]]
    ELSE [ret |-> 0, todos |-> ts]

\* The ids of a set in rowid order.
RECURSIVE RowidOrder(_)
RowidOrder(S) ==
    IF S = {} THEN <<>>
    ELSE LET m == CHOOSE x \in S : \A y \in S : x <= y
         IN  <<m>> \o RowidOrder(S \ {m})

\* The WHERE clause without "spawned_next = 0".
NeedsSpawn_ignoring_spawned(row, t) ==
    /\ (row.repeat_days > 0 \/ row.repeat_months > 0)
    /\ row.due_date # 0 /\ row.due_date < t
    /\ row.status = 0

\* The WHERE clause of db_get_todos_needing_spawn; a NULL due_date compares
\* as NULL and selects nothing.
NeedsSpawn(row, t) ==
    /\ (row.repeat_days > 0 \/ row.repeat_months > 0)
    /\ row.due_date # 0 /\ row.due_date < t
    /\ row.spawned_next = 0
    /\ row.status = 0

db_get_todos_needing_spawn(ts, t) ==
    LET ids == RowidOrder({id \in DOMAIN ts : NeedsSpawn(ts[id], t)})
    IN  [k \in 1..Len(ids) |-> ReadRow(ids[k], ts[ids[k]])]

(***************************************************************************)
(* The SELECT statements of the views.                                     *)
(***************************************************************************)
\* The rows with ids in S as ORDER BY hands them out: Before[i, j] says
\* that row i is stepped before row j.
Order(ts, S, Before) ==
    [k \in 1..Cardinality(S) |->
        ReadRow(CHOOSE id \in S : Cardinality({j \in S : Before[j, id]}) = k - 1,
                ts[CHOOSE id \in S : Cardinality({j \in S : Before[j, id]}) = k - 1])]

\* The WHERE clause db_get_todos builds from the filter.
MatchesFilter(row, category, status) ==
    /\ (category # NULL /\ Len(category) > 0) => row.category = category
    /\ status # STATUS_ALL => row.status = status

\* db_get_todos with ORDER BY priority DESC, created_at ASC.
db_get_todos_oldest_first(ts, category, status) ==
    Order(ts, {id \in DOMAIN ts : MatchesFilter(ts[id], category, status)},
          [i \in DOMAIN ts, j \in DOMAIN ts |->
                        \/ ts[i].priority > ts[j].priority
                        \/ /\ ts[i].priority = ts[j].priority
                           /\ ts[i].created_at < ts[j].created_at
                        \/ /\ ts[i].priority = ts[j].priority
                           /\ ts[i].created_at = ts[j].created_at
                           /\ i < j])

\* ORDER BY priority DESC, created_at DESC; rows equal in both keep the
\* order of the scan, which is by rowid.
db_get_todos(ts, category, status) ==
    Order(ts, {id \in DOMAIN ts : MatchesFilter(ts[id], category, status)},
          [i \in DOMAIN ts, j \in DOMAIN ts |->
                        \/ ts[i].priority > ts[j].priority
                        \/ /\ ts[i].priority = ts[j].priority
                           /\ ts[i].created_at > ts[j].created_at
                        \/ /\ ts[i].priority = ts[j].priority
                           /\ ts[i].created_at = ts[j].created_at
                           /\ i < j])

\* strftime('%s', completed_at) >= ?1 with an integer bound to ?1: neither
\* operand has an affinity, so SQLite compares the storage classes, and a
\* TEXT value is greater than every INTEGER value.  A NULL completed_at
\* makes the comparison NULL.
strftime_ge(completed_at, since_date) == completed_at # 0

\* WHERE status = 1 AND strftime('%s', completed_at) >= ?
\* ORDER BY completed_at DESC
db_get_completed_since(ts, since_date) ==
    Order(ts, {id \in DOMAIN ts : /\ ts[id].status = 1
                                  /\ strftime_ge(ts[id].completed_at, since_date)},
          [i \in DOMAIN ts, j \in DOMAIN ts |->
                        \/ ts[i].completed_at > ts[j].completed_at
                        \/ ts[i].completed_at = ts[j].completed_at /\ i < j])

\* db_get_todos_due_range without `status = 0`.
db_get_todos_due_range_any_status(ts, start, end) ==
    Order(ts, {id \in DOMAIN ts : /\ ts[id].due_date # 0
                                  /\ ts[id].due_date >= start
                                  /\ ts[id].due_date <= end},
          [i \in DOMAIN ts, j \in DOMAIN ts |->
                        \/ ts[i].due_date < ts[j].due_date
                        \/ ts[i].due_date = ts[j].due_date /\ i < j])

\* WHERE status = 0 AND due_date >= ? AND due_date <= ? ORDER BY due_date ASC
db_get_todos_due_range(ts, start, end) ==
    Order(ts, {id \in DOMAIN ts : /\ ts[id].status = 0
                                  /\ ts[id].due_date # 0
                                  /\ ts[id].due_date >= start
                                  /\ ts[id].due_date <= end},
          [i \in DOMAIN ts, j \in DOMAIN ts |->
                        \/ ts[i].due_date < ts[j].due_date
                        \/ ts[i].due_date = ts[j].due_date /\ i < j])

\* WHERE status = 0 AND due_date IS NOT NULL ORDER BY due_date ASC
db_get_todos_with_due_date(ts) ==
    Order(ts, {id \in DOMAIN ts : ts[id].status = 0 /\ ts[id].due_date # 0},
          [i \in DOMAIN ts, j \in DOMAIN ts |->
                        \/ ts[i].due_date < ts[j].due_date
                        \/ ts[i].due_date = ts[j].due_date /\ i < j])

\* cli_add handing the due date to db_add_todo as given.
cli_add_due_as_given(ts, new_id, title, description, category, priority, due_date, repeat_days, repeat_months, t) ==
    IF title = NULL \/ Len(title) = 0
    THEN [todos |-> ts, msg |-> <<>>, added |-> FALSE]
    ELSE [todos |-> db_add_todo(ts, new_id, title, description, category,
                                priority, due_date, repeat_days,
                                repeat_months, t),
          msg |-> IF repeat_days > 0
                  THEN <<"Added repeating todo #", new_id, "days", repeat_days>>
                  ELSE IF repeat_months > 0
                  THEN <<"Added repeating todo #", new_id, "months", repeat_months>>
                  ELSE <<"Added todo #", new_id>>,
          added |-> TRUE]

(***************************************************************************)
(* The handlers of the dispatcher, as functions of the store.              *)
(***************************************************************************)
\* cli_add: the store and the banner it leaves.
cli_add(ts, new_id, title, description, category, priority, due_date, repeat_days, repeat_months, t) ==
    LET effective_due ==
            IF (repeat_days > 0 \/ repeat_months > 0) /\ due_date = 0 THEN t
            ELSE due_date
    IN  IF title = NULL \/ Len(title) = 0
        THEN [todos |-> ts, msg |-> <<>>, added |-> FALSE]
        ELSE [todos |-> db_add_todo(ts, new_id, title, description, category,
                                    priority, effective_due, repeat_days,
                                    repeat_months, t),
              msg |-> IF repeat_days > 0
                      THEN <<"Added repeating todo #", new_id, "days", repeat_days>>
                      ELSE IF repeat_months > 0
                      THEN <<"Added repeating todo #", new_id, "months", repeat_months>>
                      ELSE <<"Added todo #", new_id>>,
              added |-> TRUE]

\* The loop of cli_complete_multiple from index k on.
RECURSIVE complete_loop(_, _, _, _, _)
complete_loop(ts, ids, k, success_count, t) ==
    IF k > Len(ids) THEN [todos |-> ts, success_count |-> success_count]
    ELSE LET r == db_complete_todo(ts, ids[k], t)
         IN  IF ids[k] <= 0 THEN complete_loop(ts, ids, k + 1, success_count, t)
             ELSE IF r.ret = 0
             THEN complete_loop(r.todos, ids, k + 1, success_count + 1, t)
             ELSE complete_loop(ts, ids, k + 1, success_count, t)

cli_complete_multiple(ts, ids, t) ==
    LET r == complete_loop(ts, ids, 1, 0, t)
    IN  [todos |-> r.todos,
         msg |-> IF Len(ids) = 1 /\ r.success_count = 1
                 THEN <<"Completed todo #", ids[1]>>
                 ELSE IF r.success_count > 0
                 THEN <<"Completed todo(s)", r.success_count>>
                 ELSE <<>>]

RECURSIVE delete_loop(_, _, _, _)
delete_loop(ts, ids, k, success_count) ==
    IF k > Len(ids) THEN [todos |-> ts, success_count |-> success_count]
    ELSE LET r == db_delete_todo(ts, ids[k])
         IN  IF ids[k] <= 0 THEN delete_loop(ts, ids, k + 1, success_count)
             ELSE IF r.ret = 0
             THEN delete_loop(r.todos, ids, k + 1, success_count + 1)
             ELSE delete_loop(ts, ids, k + 1, success_count)

cli_delete_multiple(ts, ids) ==
    LET r == delete_loop(ts, ids, 1, 0)
    IN  [todos |-> r.todos,
         msg |-> IF Len(ids) = 1 /\ r.success_count = 1
                 THEN <<"Deleted todo #", ids[1]>>
                 ELSE IF r.success_count > 0
                 THEN <<"Deleted todo(s)", r.success_count>>
                 ELSE <<>>]

cli_edit(ts, id, title, description, category, priority, due_date) ==
    LET r == db_update_todo(ts, id, title, description, category, priority, due_date)
    IN  IF id <= 0 THEN [todos |-> ts, msg |-> <<>>]
        ELSE IF title = NULL /\ description = NULL /\ category = NULL
                /\ priority = 0 /\ due_date = 0
        THEN [todos |-> ts, msg |-> <<>>]
        ELSE IF r.ret = 0 THEN [todos |-> r.todos, msg |-> <<"Updated todo #", id>>]
        ELSE [todos |-> ts, msg |-> <<>>]

\* A catch-up loop that also steps over a due date equal to t.
RECURSIVE catch_up_days_strictly_future(_, _, _)
catch_up_days_strictly_future(new_due, todo, t) ==
    IF new_due <= t
    THEN catch_up_days_strictly_future(new_due + todo.repeat_days * 24 * 60 * 60, todo, t)
    ELSE new_due

\* The due date spawn_repeating_todos gives the successor of todo at time t.
RECURSIVE catch_up_days(_, _, _)
catch_up_days(new_due, todo, t) ==
    IF new_due < t
    THEN catch_up_days(new_due + todo.repeat_days * 24 * 60 * 60, todo, t)
    ELSE new_due

RECURSIVE catch_up_months(_, _, _)
catch_up_months(new_due, todo, t) ==
    IF new_due < t
    THEN catch_up_months(add_months(new_due, todo.repeat_months), todo, t)
    ELSE new_due

\* The successor's due date without the catch-up loops.
next_due_one_period(todo, t) ==
    IF todo.repeat_days > 0
    THEN todo.due_date + todo.repeat_days * 24 * 60 * 60
    ELSE add_months(todo.due_date, todo.repeat_months)

next_due(todo, t) ==
    IF todo.repeat_days > 0
    THEN catch_up_days(todo.due_date + todo.repeat_days * 24 * 60 * 60, todo, t)
    ELSE catch_up_months(add_months(todo.due_date, todo.repeat_months), todo, t)

(***************************************************************************)
(* The views: what an invocation writes to stdout.  A view is recorded as  *)
(* the frame it prints: its banner line, the number of its summary line,   *)
(* the ids of the query result it iterates over (items), and the ids it    *)
(* prints in the Upcoming section and in each category section.            *)
(***************************************************************************)
\* Nothing written to stdout.
NoOutput ==
    [view |-> "none", banner |-> <<>>, count |-> 0, upcoming |-> <<>>,
     items |-> <<>>, sections |-> <<>>]

Ids(list) == [k \in 1..Len(list) |-> list[k].id]

\* Index of a todo in a list that holds it.
IndexIn(list, todo) == CHOOSE k \in 1..Len(list) : list[k].id = todo.id

\* A list view that skips no todo.
OldCompleted_never(todo, one_day_ago) ==
    todo.status = STATUS_COMPLETED /\ todo.completed_at < 0

\* The test cli_list skips a todo by: completed more than one day ago.
OldCompleted(todo, one_day_ago) ==
    /\ todo.status = STATUS_COMPLETED
    /\ todo.completed_at > 0
    /\ todo.completed_at < one_day_ago

\* An Upcoming section that takes every Pending todo with a due date.
IsUpcoming_any_due(todo, t) ==
    todo.status = STATUS_PENDING /\ todo.due_date > 0

\* The test of the Upcoming section.
IsUpcoming(todo, t) ==
    /\ todo.status = STATUS_PENDING
    /\ todo.due_date > t
    /\ todo.due_date <= t + 3 * 24 * 60 * 60

\* The first loop of cli_list: the todos it counts, in list order.
DisplayList(list, one_day_ago) ==
    SelectSeq(list, LAMBDA todo : ~OldCompleted(todo, one_day_ago))

\* The category list that loop builds: each category once, in the order
\* of its first counted todo.
FirstOfCategory(shown) ==
    SelectSeq(shown, LAMBDA todo :
        \A k \in 1..Len(shown) :
            shown[k].category = todo.category => k >= IndexIn(shown, todo))

CategoriesOf(shown) ==
    [k \in 1..Len(FirstOfCategory(shown)) |-> FirstOfCategory(shown)[k].category]

\* One category section of the list view: the pending todos, then the
\* completed ones that are not older than a day.
ListSection(list, cat, one_day_ago) ==
    [category |-> cat,
     items |-> Ids(SelectSeq(list, LAMBDA todo :
                       todo.category = cat /\ todo.status = STATUS_PENDING))
               \o Ids(SelectSeq(list, LAMBDA todo :
                       /\ todo.category = cat
                       /\ todo.status = STATUS_COMPLETED
                       /\ ~OldCompleted(todo, one_day_ago)))]

\* A list view that prints no banner.
cli_list_print_no_banner(list, cats, t, msg) ==
    [view |-> "list",
     banner |-> <<>>,
     count |-> Len(DisplayList(list, t - 24 * 60 * 60)),
     upcoming |-> Ids(SelectSeq(list, LAMBDA todo : IsUpcoming(todo, t))),
     items |-> Ids(list),
     sections |-> [c \in 1..Len(cats) |-> ListSection(list, cats[c], t - 24 * 60 * 60)]]

\* cli_list after db_get_todos: cats is the category list.
cli_list_print(list, cats, t, msg) ==
    [view |-> "list",
     banner |-> msg,
     count |-> Len(DisplayList(list, t - 24 * 60 * 60)),
     upcoming |-> Ids(SelectSeq(list, LAMBDA todo : IsUpcoming(todo, t))),
     items |-> Ids(list),
     sections |-> [c \in 1..Len(cats) |-> ListSection(list, cats[c], t - 24 * 60 * 60)]]

\* cli_list(category, status) after the recurrence pass, at time t with the
\* banner msg.
cli_list(ts, category, status, t, msg) ==
    cli_list_print(db_get_todos(ts, category, status),
                   CategoriesOf(DisplayList(db_get_todos(ts, category, status),
                                            t - 24 * 60 * 60)),
                   t, msg)

\* A frame with a summary line and the items of a query.
ItemsFrame(view, list) ==
    [view |-> view, banner |-> <<>>, count |-> Len(list), upcoming |-> <<>>,
     items |-> Ids(list), sections |-> <<>>]

\* 00:00:00 of the local day of t.
StartOfDay(t) == mktime([localtime(t) EXCEPT !.hour = 0, !.min = 0, !.sec = 0])

\* cli_due_range(days) after the recurrence pass.
cli_due_range(ts, days, t) ==
    ItemsFrame("due",
               db_get_todos_due_range(ts, StartOfDay(t),
                   StartOfDay(t) + ((days + 1) * 24 * 60 * 60) - 1))

cli_schedule(ts) == ItemsFrame("schedule", db_get_todos_with_due_date(ts))

cli_completed_since(ts, since_date) ==
    ItemsFrame("completed", db_get_completed_since(ts, since_date))

\* cli_show prints the todo, or nothing when the id is invalid or absent.
cli_show(ts, id) ==
    IF id <= 0 \/ db_get_todo_by_id(ts, id).ret # 0 THEN NoOutput
    ELSE [NoOutput EXCEPT !.view = "show", !.items = <<id>>]

cli_help == [NoOutput EXCEPT !.view = "help"]

\* cli_categories prints the categories, or that there are none.
cli_categories(ts) == [NoOutput EXCEPT !.view = "categories"]

(***************************************************************************)
(* Inputs: the command lines and the instants of the clock.                *)
(***************************************************************************)
Opt(opt, optarg) == [opt |-> opt, optarg |-> optarg]

D20 == <<"2", "0", "2", "5", "-", "0", "1", "-", "2", "0">>

D27 == <<"2", "0", "2", "5", "-", "0", "1", "-", "2", "7">>

pending == <<"p", "e", "n", "d", "i", "n", "g">>

completed == <<"c", "o", "m", "p", "l", "e", "t", "e", "d">>

AddArgvs ==
    { <<Opt("a", <<"a">>)>>,
      <<Opt("a", <<>>)>>,
      <<Opt("a", <<"a">>), Opt("u", D20), Opt("r", <<"7", "d">>)>>,
      <<Opt("a", <<"a">>), Opt("u", D20), Opt("r", <<"1", "m">>)>>,
      <<Opt("a", <<"a">>), Opt("r", <<"7", "d">>), Opt("r", <<"1", "m">>)>>,
      <<Opt("c", <<"w">>), Opt("p", <<"3">>), Opt("a", <<"b">>), Opt("u", <<"1", "d">>)>>,
      <<Opt("a", <<"a">>), Opt("c", <<>>)>> }

ViewArgvs ==
    { <<Opt("l", NULL)>>, <<Opt("T", NULL)>>, <<Opt("W", NULL)>>,
      <<Opt("M", NULL)>>, <<Opt("E", NULL)>>,
      <<Opt("R", D20)>>, <<Opt("R", D27)>>, <<Opt("A", NULL)>>, <<Opt("h", NULL)>>,
      <<Opt("l", NULL), Opt("c", <<"w">>)>>,
      <<Opt("l", NULL), Opt("s", completed)>>,
      <<Opt("l", NULL), Opt("c", <<"g", "e", "n", "e", "r", "a", "l">>), Opt("s", pending)>>,
      <<Opt("a", <<"a">>), Opt("l", NULL)>>,
      <<Opt("S", <<"1">>)>>, <<Opt("S", <<"a", "b", "c">>)>>, <<>> }

CompleteArgvs ==
    { <<Opt("C", <<"1">>)>>, <<Opt("C", <<"2">>)>>,
      <<Opt("C", <<"[", "1", ",", ",", "2", "]">>)>>,
      <<Opt("C", <<"[", "1", ",", " ", ",", "2", "]">>)>>,
      <<Opt("C", <<"[", "1", ",", "2", ",", "3", "]">>)>>,
      <<Opt("C", <<"[", "1", ",", "1", ",", "2", "]">>)>>,
      <<Opt("C", <<"a", "b", "c">>)>>, <<Opt("C", <<"0">>)>> }

DeleteArgvs ==
    { <<Opt("D", <<"1">>)>>,
      <<Opt("D", <<"[", " ", "1", " ", ",", "2", ",", "]">>)>>,
      <<Opt("D", <<"[", "1", ",", "2">>)>>,
      <<Opt("D", <<"[", "1", ",", "2", "]">>)>>,
      <<Opt("D", <<"x">>)>> }

EditArgvs ==
    { <<Opt("e", <<"1">>), Opt("t", <<"b">>)>>,
      <<Opt("e", <<"1">>)>>,
      <<Opt("e", <<"2">>), Opt("p", <<"1">>), Opt("u", D20)>>,
      <<Opt("e", <<"1", "x">>), Opt("t", <<"b">>)>>,
      <<Opt("e", <<"a", "b", "c">>), Opt("t", <<"b">>)>> }

\* Command lines with an invalid option value or an unknown flag.
UsageArgvs ==
    { <<Opt("p", <<"4">>), Opt("a", <<"a">>)>>,
      <<Opt("a", <<"a">>), Opt("p", <<"0">>)>>,
      <<Opt("a", <<"a">>), Opt("u", <<"j", "u", "n", "k">>)>>,
      <<Opt("a", <<"a">>), Opt("r", <<"3", "6", "6", "d">>)>>,
      <<Opt("r", <<"1", "3", "m">>), Opt("a", <<"a">>)>>,
      <<Opt("a", <<"a">>), Opt("r", <<"0", "d">>)>>,
      <<Opt("a", <<"a">>), Opt("r", <<"7", "x">>)>>,
      <<Opt("R", <<"j", "u", "n", "k">>)>>,
      <<Opt("x", NULL)>> }

Argvs ==
    AddArgvs \cup ViewArgvs \cup CompleteArgvs \cup DeleteArgvs
      \cup EditArgvs \cup UsageArgvs

\* 2025-01-20 12:00:00, 2025-01-27 23:59:59 and 2025-02-20 23:59:59.
Instants == {1737374400, 1738022399, 1740095999}

(***************************************************************************)
(* State.                                                                  *)
(***************************************************************************)
VARIABLES
    todos,             \* table todos: id -> row
    autoinc,           \* sqlite_sequence: the largest id handed out
    now,               \* the clock, Unix seconds
    pc,                \* where the running invocation is; "idle" between two
    argv,              \* the options of the running or last invocation
    v,                 \* the locals of cli_run after its option loop
    last_command_msg,  \* the banner, <<>> when empty
    spawn_list,        \* the snapshot spawn_repeating_todos iterates over
    spawn_i,           \* one-based index into spawn_list
    query_now,         \* the time the needing-spawn query was bound to
    spawned_from,      \* successor id -> id of the todo it was spawned from
    exit_code,         \* exit status of the last invocation; -1 if none yet
    out,               \* what the running or last invocation wrote to stdout
    ninv,              \* number of invocations started so far
    crashed,           \* the todo whose successor was inserted and whose
                       \* db_mark_spawned did not happen, and in which invocation
    pass2,             \* spawn_repeating_todos of a second, concurrent invocation
    sig,               \* a process between db_init and its exit, with its signals
    wrap               \* a call of print_bordered_wrapped

vars == <<todos, autoinc, now, pc, argv, v, last_command_msg, spawn_list,
          spawn_i, query_now, spawned_from, exit_code, out, ninv,
          crashed, pass2, sig, wrap>>

\* The state of the other specifications of this module.
auxVars == <<crashed, pass2, sig, wrap>>

passVars == <<spawn_list, spawn_i, query_now, spawned_from>>

\* No fault yet, no second invocation, no process under signals, no wrapping.
NotCrashed == [id |-> 0, ninv |-> 0]

Pass2Idle == [pc |-> "idle", spawn_list |-> <<>>, spawn_i |-> 0]

\* The second invocation after todo_list_free: its list is gone.
Pass2Done == [pc |-> "done", spawn_list |-> <<>>, spawn_i |-> 0]

\* A process under signals: the stack of what is running (main at the
\* bottom, a signal_handler above what it interrupted), the pointer db, the
\* connection it was opened to, and what sqlite3_close has been called on.
SigIdle ==
    [stack |-> <<>>, db |-> "NULL", handle |-> "none", closed_twice |-> FALSE,
     exiting |-> FALSE]

WrapIdle ==
    [pc |-> "none", str |-> <<>>, max_width |-> 0, wrap_width |-> 0,
     prefix_codes |-> <<>>, suffix_codes |-> <<>>, content_end |-> 0, line_start |-> 0,
     printed |-> <<>>, skipped |-> <<>>]

\* The store and the dispatcher before the first invocation.
StoreInit ==
    /\ todos = <<>>
    /\ autoinc = 0
    /\ now = 1737374400
    /\ pc = "idle"
    /\ argv = <<>>
    /\ v = CliLocals
    /\ last_command_msg = <<>>
    /\ spawn_list = <<>>
    /\ spawn_i = 0
    /\ query_now = 0
    /\ spawned_from = <<>>
    /\ exit_code = -1
    /\ out = NoOutput
    /\ ninv = 0

Init ==
    /\ StoreInit
    /\ crashed = NotCrashed
    /\ pass2 = Pass2Idle
    /\ sig = SigIdle
    /\ wrap = WrapIdle

(***************************************************************************)
(* A process invocation: main calls cli_run, which parses the options and  *)
(* dispatches.  Each invocation starts with an empty banner.               *)
(***************************************************************************)
\* The locals cli_run's option loop leaves, for each command line and each
\* instant of the clock.
ParsedArgv == [t \in Instants |-> [a \in Argvs |-> cli_run_options(a, t)]]

\* cli_run reads the options of a fresh invocation.
Invoke(a) ==
    /\ pc = "idle"
    /\ ninv < MaxCmds
    /\ ninv' = ninv + 1
    /\ argv' = a
    /\ v' = ParsedArgv[now][a]
    /\ UNCHANGED auxVars

\* cli_run returns from inside the option loop, or finds no command.
Usage ==
    \E a \in Argvs :
        /\ Invoke(a)
        /\ v'.ret = 1 \/ v'.cmd = "CMD_NONE"
        /\ exit_code' = 1
        /\ last_command_msg' = <<>>
        /\ out' = IF v'.ret = 1 THEN NoOutput ELSE cli_help
        /\ UNCHANGED <<todos, autoinc, now, pc, passVars>>

\* case CMD_ADD: cli_add, then on to the list view.
Add ==
    \E a \in Argvs :
        /\ Invoke(a)
        /\ v'.ret = -1 /\ v'.cmd = "CMD_ADD"
        /\ LET r == cli_add(todos, autoinc + 1, v'.add_title, v'.description,
                            v'.category, v'.priority, v'.due_date,
                            v'.repeat_days, v'.repeat_months, now)
           IN  /\ r.added => autoinc < MaxId
               /\ todos' = r.todos
               /\ autoinc' = IF r.added THEN autoinc + 1 ELSE autoinc
               /\ last_command_msg' = r.msg
        /\ pc' = "query"
        /\ exit_code' = -1
        /\ out' = NoOutput
        /\ UNCHANGED <<now, passVars>>

\* case CMD_COMPLETE: parse_ids, then cli_complete_multiple.
Complete ==
    \E a \in Argvs :
        /\ Invoke(a)
        /\ v'.ret = -1 /\ v'.cmd = "CMD_COMPLETE"
        /\ LET p == parse_ids(v'.complete_arg)
               r == cli_complete_multiple(todos, p.ids, now)
           IN  IF p.ret # 0
               THEN /\ exit_code' = 1
                    /\ last_command_msg' = <<>>
                    /\ UNCHANGED <<todos, pc>>
               ELSE /\ todos' = r.todos
                    /\ last_command_msg' = r.msg
                    /\ pc' = "query"
                    /\ exit_code' = -1
        /\ out' = NoOutput
        /\ UNCHANGED <<autoinc, now, passVars>>

\* case CMD_DELETE: parse_ids, then cli_delete_multiple.
Delete ==
    \E a \in Argvs :
        /\ Invoke(a)
        /\ v'.ret = -1 /\ v'.cmd = "CMD_DELETE"
        /\ LET p == parse_ids(v'.delete_arg)
               r == cli_delete_multiple(todos, p.ids)
           IN  IF p.ret # 0
               THEN /\ exit_code' = 1
                    /\ last_command_msg' = <<>>
                    /\ UNCHANGED <<todos, pc>>
               ELSE /\ todos' = r.todos
                    /\ last_command_msg' = r.msg
                    /\ pc' = "query"
                    /\ exit_code' = -1
        /\ out' = NoOutput
        /\ UNCHANGED <<autoinc, now, passVars>>

\* case CMD_EDIT: cli_edit, then on to the list view.
Edit ==
    \E a \in Argvs :
        /\ Invoke(a)
        /\ v'.ret = -1 /\ v'.cmd = "CMD_EDIT"
        /\ LET r == cli_edit(todos, v'.target_id, v'.edit_title, v'.description,
                             v'.category, v'.priority, v'.due_date)
           IN  /\ todos' = r.todos
               /\ last_command_msg' = r.msg
        /\ pc' = "query"
        /\ exit_code' = -1
        /\ out' = NoOutput
        /\ UNCHANGED <<autoinc, now, passVars>>

\* case CMD_SHOW, CMD_COMPLETED_SINCE, CMD_HELP, CMD_CATEGORIES: the
\* handler reads the store and cli_run returns 0.
ReadOnly ==
    \E a \in Argvs :
        /\ Invoke(a)
        /\ v'.ret = -1
        /\ v'.cmd \in {"CMD_SHOW", "CMD_COMPLETED_SINCE", "CMD_HELP", "CMD_CATEGORIES"}
        /\ exit_code' = 0
        /\ last_command_msg' = <<>>
        /\ out' = CASE v'.cmd = "CMD_SHOW" -> cli_show(todos, v'.target_id)
                    [] v'.cmd = "CMD_COMPLETED_SINCE" ->
                         cli_completed_since(todos, v'.since_date)
                    [] v'.cmd = "CMD_HELP" -> cli_help
                    [] v'.cmd = "CMD_CATEGORIES" -> cli_categories(todos)
        /\ UNCHANGED <<todos, autoinc, now, pc, passVars>>

\* case CMD_LIST, CMD_TODAY, CMD_WEEK, CMD_MONTH, CMD_SCHEDULE: the view
\* starts with the recurrence pass.
View ==
    \E a \in Argvs :
        /\ Invoke(a)
        /\ v'.ret = -1
        /\ v'.cmd \in {"CMD_LIST", "CMD_TODAY", "CMD_WEEK", "CMD_MONTH", "CMD_SCHEDULE"}
        /\ pc' = "query"
        /\ exit_code' = -1
        /\ last_command_msg' = <<>>
        /\ out' = NoOutput
        /\ UNCHANGED <<todos, autoinc, now, passVars>>

\* tui_toggle_complete on the todo with this id: an invocation of its own,
\* with no options and no exit status of cli_run.
ToggleComplete ==
    \E id \in DOMAIN todos :
        /\ pc = "idle"
        /\ ninv < MaxCmds
        /\ ninv' = ninv + 1
        /\ todos' = IF todos[id].status = STATUS_COMPLETED
                    THEN db_uncomplete_todo(todos, id).todos
                    ELSE db_complete_todo(todos, id, now).todos
        /\ argv' = <<>>
        /\ v' = CliLocals
        /\ last_command_msg' = <<>>
        /\ exit_code' = -1
        /\ out' = NoOutput
        /\ UNCHANGED <<autoinc, now, pc, passVars, auxVars>>

(***************************************************************************)
(* spawn_repeating_todos, one store statement per step.                    *)
(***************************************************************************)
SpawnQuery ==
    /\ pc = "query"
    /\ spawn_list' = db_get_todos_needing_spawn(todos, now)
    /\ query_now' = now
    /\ spawn_i' = 1
    /\ pc' = IF Len(spawn_list') <= 0 THEN "render" ELSE "insert"
    /\ UNCHANGED <<todos, autoinc, now, argv, v, last_command_msg, spawned_from, exit_code, out, ninv, auxVars>>

SpawnInsert ==
    /\ pc = "insert"
    /\ autoinc < MaxId
    /\ LET todo == spawn_list[spawn_i]
           new_due == next_due(todo, now)
       IN  /\ todos' = db_add_todo(todos, autoinc + 1, todo.title, todo.description,
                                   todo.category, todo.priority, new_due,
                                   todo.repeat_days, todo.repeat_months, now)
           /\ spawned_from' = [id \in DOMAIN spawned_from \cup {autoinc + 1} |->
                                  IF id = autoinc + 1 THEN todo.id ELSE spawned_from[id]]
    /\ autoinc' = autoinc + 1
    /\ pc' = "mark"
    /\ UNCHANGED <<now, argv, v, last_command_msg, spawn_list, spawn_i, query_now, exit_code, out, ninv, auxVars>>

SpawnMark ==
    /\ pc = "mark"
    /\ todos' = db_mark_spawned(todos, spawn_list[spawn_i].id).todos
    /\ spawn_i' = spawn_i + 1
    /\ pc' = IF spawn_i < Len(spawn_list) THEN "insert" ELSE "render"
    /\ UNCHANGED <<autoinc, now, argv, v, last_command_msg, spawn_list, query_now,
                   spawned_from, exit_code, out, ninv, auxVars>>

\* The rest of the view after the pass: the list view prints the banner and
\* clears it; cli_run returns 0.
Render ==
    /\ pc = "render"
    /\ out' = CASE v.cmd = "CMD_LIST" ->
                    cli_list(todos, v.category, parse_status(v.status_str), now,
                             last_command_msg)
               [] v.cmd = "CMD_TODAY" -> cli_due_range(todos, 0, now)
               [] v.cmd = "CMD_WEEK" -> cli_due_range(todos, 7, now)
               [] v.cmd = "CMD_MONTH" -> cli_due_range(todos, 31, now)
               [] v.cmd = "CMD_SCHEDULE" -> cli_schedule(todos)
               [] OTHER -> cli_list(todos, NULL, STATUS_ALL, now, last_command_msg)
    /\ last_command_msg' = <<>>
    /\ exit_code' = 0
    /\ pc' = "idle"
    /\ UNCHANGED <<todos, autoinc, now, argv, v, passVars, ninv, auxVars>>

\* Time passes.
Tick ==
    /\ \E t \in Instants : t > now /\ now' = t
    /\ UNCHANGED <<todos, autoinc, pc, argv, v, last_command_msg, passVars, exit_code, out, ninv, auxVars>>

Next ==
    \/ Usage
    \/ Add
    \/ Complete
    \/ Delete
    \/ Edit
    \/ ReadOnly
    \/ View
    \/ ToggleComplete
    \/ SpawnQuery
    \/ SpawnInsert
    \/ SpawnMark
    \/ Render
    \/ Tick

Spec == Init /\ [][Next]_vars

(***************************************************************************)
(* The recurrence pass with one fault between db_add_todo and the          *)
(* db_mark_spawned that follows it.                                        *)
(***************************************************************************)
\* The process ends between the insert of a successor and the mark of its
\* predecessor, at most once: nothing more is written and the statics of
\* the process are gone.
Crash ==
    /\ pc = "mark"
    /\ crashed = NotCrashed
    /\ crashed' = [id |-> spawn_list[spawn_i].id, ninv |-> ninv]
    /\ pc' = "idle"
    /\ last_command_msg' = <<>>
    /\ exit_code' = -1
    /\ UNCHANGED <<todos, autoinc, now, argv, v, passVars, out, ninv, pass2, sig, wrap>>

\* db_mark_spawned returns -1 without updating the row; the loop of
\* spawn_repeating_todos does not look at the result and goes on.
SpawnMarkFails ==
    /\ pc = "mark"
    /\ crashed = NotCrashed
    /\ crashed' = [id |-> spawn_list[spawn_i].id, ninv |-> ninv]
    /\ spawn_i' = spawn_i + 1
    /\ pc' = IF spawn_i < Len(spawn_list) THEN "insert" ELSE "render"
    /\ UNCHANGED <<todos, autoinc, now, argv, v, last_command_msg, spawn_list, query_now,
                   spawned_from, exit_code, out, ninv, pass2, sig, wrap>>

NextCrash ==
    \/ Next
    \/ Crash
    \/ SpawnMarkFails

SpecCrash == Init /\ [][NextCrash]_vars

(***************************************************************************)
(* A second invocation that runs spawn_repeating_todos on the same store   *)
(* while the first one is in its pass.  Each SQL statement is one step.    *)
(***************************************************************************)
\* db_get_todos_needing_spawn of the second invocation.
Spawn2Query ==
    /\ pass2.pc = "idle"
    /\ pc \in {"query", "insert", "mark"}
    /\ pass2' = IF Len(db_get_todos_needing_spawn(todos, now)) <= 0
                THEN Pass2Done
                ELSE [pc |-> "insert",
                      spawn_list |-> db_get_todos_needing_spawn(todos, now),
                      spawn_i |-> 1]
    /\ UNCHANGED <<todos, autoinc, now, pc, argv, v, last_command_msg, passVars,
                   exit_code, out, ninv, crashed, sig, wrap>>

\* db_add_todo of the second invocation.
Spawn2Insert ==
    /\ pass2.pc = "insert"
    /\ autoinc < MaxId
    /\ LET todo == pass2.spawn_list[pass2.spawn_i]
       IN  /\ todos' = db_add_todo(todos, autoinc + 1, todo.title, todo.description,
                                   todo.category, todo.priority, next_due(todo, now),
                                   todo.repeat_days, todo.repeat_months, now)
           /\ spawned_from' = [id \in DOMAIN spawned_from \cup {autoinc + 1} |->
                                  IF id = autoinc + 1 THEN todo.id ELSE spawned_from[id]]
    /\ autoinc' = autoinc + 1
    /\ pass2' = [pass2 EXCEPT !.pc = "mark"]
    /\ UNCHANGED <<now, pc, argv, v, last_command_msg, spawn_list, spawn_i, query_now,
                   exit_code, out, ninv, crashed, sig, wrap>>

\* db_mark_spawned of the second invocation.
Spawn2Mark ==
    /\ pass2.pc = "mark"
    /\ todos' = db_mark_spawned(todos, pass2.spawn_list[pass2.spawn_i].id).todos
    /\ pass2' = IF pass2.spawn_i < Len(pass2.spawn_list)
                THEN [pass2 EXCEPT !.spawn_i = @ + 1, !.pc = "insert"]
                ELSE Pass2Done
    /\ UNCHANGED <<autoinc, now, pc, argv, v, last_command_msg, passVars,
                   exit_code, out, ninv, crashed, sig, wrap>>

NextConcurrent ==
    \/ Next
    \/ Spawn2Query
    \/ Spawn2Insert
    \/ Spawn2Mark

SpecConcurrent == Init /\ [][NextConcurrent]_vars

(***************************************************************************)
(* One process from the start of main to its exit, with SIGINT and SIGTERM *)
(* arriving at any point.  A signal_handler runs on top of what it         *)
(* interrupted; the signal it handles is blocked while it runs.            *)
(***************************************************************************)
Signals == {"SIGINT", "SIGTERM"}

\* What a step of that process leaves alone.
notSig == <<todos, autoinc, now, pc, argv, v, last_command_msg, passVars,
            exit_code, out, ninv, crashed, pass2, wrap>>

\* main has installed the handlers and not yet called db_init.
SigStart == [SigIdle EXCEPT !.stack = <<[ctx |-> "main", pc |-> "db_init"]>>]

Top == sig.stack[Len(sig.stack)]

Running == Len(sig.stack) > 0

\* The stack with the running frame at another place.
Goto(pc2) == [sig.stack EXCEPT ![Len(sig.stack)] = [@ EXCEPT !.pc = pc2]]

\* db_init: sqlite3_open sets db.
SigDbInit ==
    /\ Running /\ Top.pc = "db_init"
    /\ sig' = [sig EXCEPT !.stack = Goto("cli_run"), !.db = "set", !.handle = "open"]
    /\ UNCHANGED notSig

\* cli_run prepares a statement on db, and finalizes it.
SigPrepare ==
    /\ Running /\ Top.pc = "cli_run"
    /\ sig' = [sig EXCEPT !.stack = Goto("statement")]
    /\ UNCHANGED notSig

SigFinalize ==
    /\ Running /\ Top.pc = "statement"
    /\ sig' = [sig EXCEPT !.stack = Goto("cli_run")]
    /\ UNCHANGED notSig

\* main returns: exit runs cleanup, registered with atexit, which is db_close.
SigReturn ==
    /\ Running /\ Top.pc = "cli_run"
    /\ sig' = [sig EXCEPT !.stack = Goto("exit_if_db"), !.exiting = TRUE]
    /\ UNCHANGED notSig

\* A signal arrives: signal_handler starts with cleanup, which is db_close.
SigArrives ==
    \E s \in Signals :
        /\ Running
        /\ \A k \in 1..Len(sig.stack) : sig.stack[k].ctx # s
        /\ sig' = [sig EXCEPT !.stack = Append(@, [ctx |-> s, pc |-> "handler_if_db"])]
        /\ UNCHANGED notSig

\* db_close, `if (db)`.
DbCloseTest ==
    /\ Running /\ Top.pc \in {"handler_if_db", "exit_if_db"}
    /\ sig' = [sig EXCEPT !.stack =
                  IF sig.db = "set"
                  THEN Goto(IF Top.pc = "handler_if_db" THEN "handler_close" ELSE "exit_close")
                  ELSE IF Top.pc = "handler_if_db" THEN Goto("handler_exit") ELSE <<>>]
    /\ UNCHANGED notSig

\* db_close, `sqlite3_close(db)`: closes an open connection with no
\* statement, leaves one with a statement open (SQLITE_BUSY), and is called
\* on a closed connection if the pointer still holds one.
DbCloseCall ==
    /\ Running /\ Top.pc \in {"handler_close", "exit_close"}
    /\ sig' = [sig EXCEPT
                  !.stack = Goto(IF Top.pc = "handler_close" THEN "handler_null"
                                 ELSE "exit_null"),
                  !.handle = IF sig.handle = "open"
                                /\ \A k \in 1..Len(sig.stack) : sig.stack[k].pc # "statement"
                             THEN "closed" ELSE @,
                  !.closed_twice = @ \/ sig.handle = "closed"]
    /\ UNCHANGED notSig

\* db_close, `db = NULL`; after it cleanup returns: the handler goes on to
\* exit(1), exit ends the process.
DbCloseNull ==
    /\ Running /\ Top.pc \in {"handler_null", "exit_null"}
    /\ sig' = [sig EXCEPT !.db = "NULL",
                          !.stack = IF Top.pc = "handler_null" THEN Goto("handler_exit")
                                    ELSE <<>>]
    /\ UNCHANGED notSig

\* signal_handler, `exit(1)`: exit runs cleanup; called while exit is
\* already running its behaviour is undefined, and it runs cleanup again
\* or ends the process at once.
HandlerExit ==
    /\ Running /\ Top.pc = "handler_exit"
    /\ \/ sig' = [sig EXCEPT !.stack = Goto("exit_if_db"), !.exiting = TRUE]
       \/ sig.exiting /\ sig' = [sig EXCEPT !.stack = <<>>]
    /\ UNCHANGED notSig

NextSignal ==
    \/ SigDbInit
    \/ SigPrepare
    \/ SigFinalize
    \/ SigReturn
    \/ SigArrives
    \/ DbCloseTest
    \/ DbCloseCall
    \/ DbCloseNull
    \/ HandlerExit

InitSignal ==
    /\ StoreInit
    /\ crashed = NotCrashed
    /\ pass2 = Pass2Idle
    /\ wrap = WrapIdle
    /\ sig = SigStart

SpecSignal == InitSignal /\ [][NextSignal]_vars

(***************************************************************************)
(* The renderer's word wrap, utils.c.  A C string is its bytes; ESC is     *)
(* 0x1B, LEAD and CONT are the two bytes of a two-byte UTF-8 character,    *)
(* and the byte after the last one is NUL.  A pointer into the string is   *)
(* the index of its byte, starting at 1.                                   *)
(***************************************************************************)
BOX_WIDTH == 80

ESC == "1B"
LEAD == "C3"
CONT == "A9"
NUL == "00"

Byte(str, p) == IF p \in 1..Len(str) THEN str[p] ELSE NUL

\* (b & 0xC0) == 0x80
IsContinuation(b) == b = CONT

\* `*p == '\033' && *(p + 1) == '['`
AtSequence(str, p) == Byte(str, p) = ESC /\ Byte(str, p + 1) = "["

\* From the ESC of a sequence to the byte after its 'm', or to the NUL when
\* no 'm' follows.
SkipSequence(str, p) ==
    IF \E q \in (p + 2)..Len(str) : str[q] = "m"
    THEN 1 + CHOOSE q \in (p + 2)..Len(str) :
                 /\ str[q] = "m"
                 /\ \A r \in (p + 2)..(q - 1) : str[r] # "m"
    ELSE Len(str) + 1

\* The first sequence at or after p, Len(str) + 1 when there is none.
NextSequence(str, p) ==
    IF \E q \in p..Len(str) : AtSequence(str, q)
    THEN CHOOSE q \in p..Len(str) :
             AtSequence(str, q) /\ \A r \in p..(q - 1) : ~AtSequence(str, r)
    ELSE Len(str) + 1

\* The loop of visible_strlen from p on: up to the next sequence every
\* byte but a continuation byte counts, and the sequence is skipped.
RECURSIVE visible_count(_, _)
visible_count(str, p) ==
    IF Byte(str, p) = NUL THEN 0
    ELSE Cardinality({q \in p..(NextSequence(str, p) - 1) : ~IsContinuation(str[q])})
         + (IF NextSequence(str, p) > Len(str) THEN 0
            ELSE visible_count(str, SkipSequence(str, NextSequence(str, p))))

visible_strlen(str) == IF str = NULL THEN 0 ELSE visible_count(str, 1)

content_width == BOX_WIDTH - 4

\* The room of prefix_codes[64].
PrefixRoom == 64

\* The leading run of sequences: those that fit are copied to prefix_codes,
\* the content starts after all of them.
RECURSIVE ExtractCodes(_, _, _)
ExtractCodes(str, p, prefix_codes) ==
    IF AtSequence(str, p)
    THEN ExtractCodes(str, SkipSequence(str, p),
                      IF Len(prefix_codes) + (SkipSequence(str, p) - p) < PrefixRoom - 1
                      THEN prefix_codes \o SubSeq(str, p, SkipSequence(str, p) - 1)
                      ELSE prefix_codes)
    ELSE [prefix_codes |-> prefix_codes, content_start |-> p]

RESET == <<ESC, "[", "0", "m">>

has_reset(str) == Len(str) >= 4 /\ SubSeq(str, Len(str) - 3, Len(str)) = RESET

\* The inner loop letting one byte more onto the line.
RECURSIVE ScanLine_one_more(_, _, _, _, _, _)
ScanLine_one_more(str, content_end, wrap_width, scan, last_break, line_visible_len) ==
    IF scan < content_end /\ line_visible_len <= wrap_width
    THEN ScanLine_one_more(str, content_end, wrap_width,
                  IF AtSequence(str, scan) THEN SkipSequence(str, scan) ELSE scan + 1,
                  IF str[scan] = " " THEN scan ELSE last_break,
                  IF AtSequence(str, scan) THEN line_visible_len ELSE line_visible_len + 1)
    ELSE [scan |-> scan, last_break |-> last_break]

\* The inner loop: scan forward until the content ends or the line holds
\* wrap_width bytes outside sequences, remembering the last space; 0 is
\* the NULL last_break.
RECURSIVE ScanLine(_, _, _, _, _, _)
ScanLine(str, content_end, wrap_width, scan, last_break, line_visible_len) ==
    IF scan < content_end /\ line_visible_len < wrap_width
    THEN ScanLine(str, content_end, wrap_width,
                  IF AtSequence(str, scan) THEN SkipSequence(str, scan) ELSE scan + 1,
                  IF str[scan] = " " THEN scan ELSE last_break,
                  IF AtSequence(str, scan) THEN line_visible_len ELSE line_visible_len + 1)
    ELSE [scan |-> scan, last_break |-> last_break]

line_end(content_end, line_start, s) ==
    IF s.scan >= content_end THEN content_end
    ELSE IF s.last_break # 0 /\ s.last_break > line_start THEN s.last_break
    ELSE s.scan

\* A call of print_bordered_wrapped(str, max_width) about to start; printed
\* holds the strings handed to print_bordered, skipped whether the space
\* after each was stepped over.
WrapCall(str, max_width) ==
    [pc |-> "call", str |-> str, max_width |-> max_width, wrap_width |-> 0,
     prefix_codes |-> <<>>, suffix_codes |-> <<>>, content_end |-> 0, line_start |-> 0,
     printed |-> <<>>, skipped |-> <<>>]

notWrap == <<todos, autoinc, now, pc, argv, v, last_command_msg, passVars,
             exit_code, out, ninv, crashed, pass2, sig>>

\* `if (!str) { print_border_empty(); return; }`
WrapNull ==
    /\ wrap.pc = "call" /\ wrap.str = NULL
    /\ wrap' = [wrap EXCEPT !.pc = "done"]
    /\ UNCHANGED notWrap

\* The string fits: print_bordered(str).
WrapFits ==
    /\ wrap.pc = "call" /\ wrap.str # NULL
    /\ visible_strlen(wrap.str) <= Min(wrap.max_width, content_width)
    /\ wrap' = [wrap EXCEPT !.pc = "done",
                            !.wrap_width = Min(wrap.max_width, content_width),
                            !.printed = <<wrap.str>>, !.skipped = <<FALSE>>]
    /\ UNCHANGED notWrap

\* The string does not fit: the prefix, the trailing reset and the content
\* between them.
WrapExtract ==
    /\ wrap.pc = "call" /\ wrap.str # NULL
    /\ visible_strlen(wrap.str) > Min(wrap.max_width, content_width)
    /\ wrap' = [wrap EXCEPT
                   !.pc = "loop",
                   !.wrap_width = Min(wrap.max_width, content_width),
                   !.prefix_codes = ExtractCodes(wrap.str, 1, <<>>).prefix_codes,
                   !.line_start = ExtractCodes(wrap.str, 1, <<>>).content_start,
                   !.suffix_codes = IF has_reset(wrap.str) THEN RESET ELSE <<>>,
                   !.content_end = IF has_reset(wrap.str) THEN Len(wrap.str) + 1 - 4
                                   ELSE Len(wrap.str) + 1]
    /\ UNCHANGED notWrap

\* One turn of the outer loop, with the result s of its scan.
WrapTurn(s) ==
    wrap' = [wrap EXCEPT
                !.printed = Append(@, wrap.prefix_codes
                                      \o SubSeq(wrap.str, wrap.line_start,
                                                line_end(wrap.content_end, wrap.line_start, s) - 1)
                                      \o wrap.suffix_codes),
                !.skipped = Append(@,
                    /\ line_end(wrap.content_end, wrap.line_start, s) < wrap.content_end
                    /\ wrap.str[line_end(wrap.content_end, wrap.line_start, s)] = " "),
                !.line_start =
                    IF /\ line_end(wrap.content_end, wrap.line_start, s) < wrap.content_end
                       /\ wrap.str[line_end(wrap.content_end, wrap.line_start, s)] = " "
                    THEN line_end(wrap.content_end, wrap.line_start, s) + 1
                    ELSE line_end(wrap.content_end, wrap.line_start, s)]

WrapLine ==
    /\ wrap.pc = "loop" /\ wrap.line_start < wrap.content_end
    /\ WrapTurn(ScanLine(wrap.str, wrap.content_end, wrap.wrap_width,
                         wrap.line_start, 0, 0))
    /\ UNCHANGED notWrap

\* `while (line_start < content_end)` ends.
WrapReturn ==
    /\ wrap.pc = "loop" /\ wrap.line_start >= wrap.content_end
    /\ wrap' = [wrap EXCEPT !.pc = "done"]
    /\ UNCHANGED notWrap

\* The strings wrapped: a leading colour or none (or a sequence too long
\* for prefix_codes), two runs of text around a separator, and an end.
Letters == <<"a", "b", "c", "d", "e">>

Text(n) == [i \in 1..n |-> Letters[((i - 1) % Len(Letters)) + 1]]

SGR(code) == <<ESC, "[">> \o code \o <<"m">>

WrapPrefixes == {<<>>, SGR(<<"3", "4">>), SGR(<<"3", "1">>) \o SGR(<<"1">>),
                 SGR([i \in 1..61 |-> "0"])}

WrapSeparators == {<<>>, <<" ">>, <<" ", " ">>, SGR(<<"1">>), <<LEAD, CONT>>,
                   <<" ", LEAD, CONT, " ">>}

WrapEnds == {<<>>, RESET, <<" ">>, <<" ">> \o RESET, <<ESC, "[">>, <<ESC, "[", "1">> \o RESET}

WrapLengths == {0, 1, 40, 75, 76, 77}

WrapInputs ==
    {NULL} \cup {p \o Text(n1) \o s \o Text(n2) \o e :
                    p \in WrapPrefixes, n1 \in WrapLengths, s \in WrapSeparators,
                    n2 \in WrapLengths, e \in WrapEnds}

\* Every caller passes 76.
WrapWidths == {76}

NextWrap ==
    \/ WrapNull
    \/ WrapFits
    \/ WrapExtract
    \/ WrapLine
    \/ WrapReturn

InitWrap ==
    /\ StoreInit
    /\ crashed = NotCrashed
    /\ pass2 = Pass2Idle
    /\ sig = SigIdle
    /\ \E str \in WrapInputs, w \in WrapWidths : wrap = WrapCall(str, w)

SpecWrap == InitWrap /\ [][NextWrap]_vars

(***************************************************************************)
(* Properties.                                                             *)
(***************************************************************************)
Pending(row) == row.status = STATUS_PENDING
Completed(row) == row.status = STATUS_COMPLETED

\* C1: in every reachable store a todo is Completed exactly when its
\* completed_at is set.
C1_CompletedIffTimestamp ==
    \A id \in DOMAIN todos : Completed(todos[id]) <=> todos[id].completed_at # 0

\* A todo was completed after the recurrence pass had marked it, and another
\* is pending: Add, the pass, MarkSpawned and Complete have all acted.
C1_Witness ==
    \E id \in DOMAIN todos, other \in DOMAIN todos :
        /\ Completed(todos[id]) /\ todos[id].spawned_next = 1
        /\ Pending(todos[other]) /\ other \in DOMAIN spawned_from

\* The spawn predicate of section 4.2 at time t, but for spawned_next.
Overdue(row, t) ==
    /\ (row.repeat_days > 0 \/ row.repeat_months > 0)
    /\ row.due_date # 0 /\ row.due_date < t
    /\ Pending(row)

\* s is a fresh successor of the stored todo T whose due date satisfies Due.
SuccessorOf(s, T) ==
    /\ s \in DOMAIN spawned_from /\ spawned_from[s] = T
    /\ Pending(todos[s])
    /\ todos[s].spawned_next = 0
    /\ todos[s].completed_at = 0
    /\ todos[s].title = todos[T].title
    /\ todos[s].description = todos[T].description
    /\ todos[s].category = todos[T].category
    /\ todos[s].priority = todos[T].priority
    /\ todos[s].repeat_days = todos[T].repeat_days
    /\ todos[s].repeat_months = todos[T].repeat_months

\* The ids the pass selected.
Selected == {spawn_list[k].id : k \in 1..Len(spawn_list)}

C3_AtMostOneSuccessor ==
    /\ pc = "insert" /\ spawn_list[spawn_i].id \in DOMAIN todos
          => todos[spawn_list[spawn_i].id].spawned_next = 0
    /\ \A s1 \in DOMAIN spawned_from, s2 \in DOMAIN spawned_from :
          spawned_from[s1] = spawned_from[s2] => s1 = s2

\* A later pass is complete that selected nothing although a marked
\* predecessor is still pending and overdue.
C3_Witness ==
    /\ pc = "render"
    /\ spawn_list = <<>>
    /\ \E T \in DOMAIN todos :
          /\ Overdue(todos[T], query_now) /\ todos[T].spawned_next = 1
          /\ \E s \in DOMAIN spawned_from : spawned_from[s] = T

\* C4: a todo is inserted with spawned_next false; the flag never goes back
\* from true to false; it changes only in the mark step of the pass, for the
\* todo whose successor the pass has just inserted.
C4_SpawnedNextOnce ==
    [][ /\ \A id \in DOMAIN todos' \ DOMAIN todos : todos'[id].spawned_next = 0
        /\ \A id \in DOMAIN todos \cap DOMAIN todos' :
              /\ todos[id].spawned_next = 1 => todos'[id].spawned_next = 1
              /\ todos[id].spawned_next # todos'[id].spawned_next =>
                    /\ pc = "mark"
                    /\ id = spawn_list[spawn_i].id
                    /\ spawned_from[autoinc] = id ]_vars

\* A marked todo has since been edited, and another completed.
C4_Witness ==
    \E id \in DOMAIN todos :
        /\ todos[id].spawned_next = 1
        /\ \/ last_command_msg = <<"Updated todo #", id>>
           \/ Completed(todos[id])

\* C5: no stored todo has both repeat_days and repeat_months non-zero.
C5_OneRepeatUnit ==
    \A id \in DOMAIN todos :
        ~(todos[id].repeat_days # 0 /\ todos[id].repeat_months # 0)

\* An Add command that gave --repeat twice has stored its todo.
C5_Witness ==
    /\ Len(argv) = 3 /\ argv[2].opt = "r" /\ argv[3].opt = "r"
    /\ argv[2].optarg # argv[3].optarg
    /\ \E id \in DOMAIN todos :
          /\ last_command_msg = <<"Added repeating todo #", id, "months", 1>>
          /\ todos[id].repeat_months = 1

\* The running or last invocation is an Add with an empty title.
EmptyTitleAdd(locals) ==
    /\ locals.ret = -1 /\ locals.cmd = "CMD_ADD"
    /\ (locals.add_title = NULL \/ Len(locals.add_title) = 0)

\* C6: an Add with an empty title changes nothing in the store and exits
\* with code 1.
C6_EmptyTitleRejected ==
    [][ EmptyTitleAdd(v') => /\ todos' = todos
                             /\ pc' = "idle" => exit_code' = 1 ]_vars

\* The operation of the last invocation was aborted: Show or Edit of an
\* absent id, Edit with no changing field, Complete of one absent id.
Aborted ==
    LET p == parse_ids(v.complete_arg)
    IN  /\ v.ret = -1
        /\ \/ v.cmd \in {"CMD_SHOW", "CMD_EDIT"} /\ v.target_id \notin DOMAIN todos
           \/ /\ v.cmd = "CMD_EDIT"
              /\ v.edit_title = NULL /\ v.description = NULL /\ v.category = NULL
              /\ v.priority = 0 /\ v.due_date = 0
           \/ /\ v.cmd = "CMD_COMPLETE"
              /\ p.ret = 0 /\ Len(p.ids) = 1 /\ p.ids[1] \notin DOMAIN todos

\* C7: an invocation whose operation was aborted exits with code 1.
C7_AbortedExits1 ==
    pc = "idle" /\ Aborted => exit_code = 1

\* The value of an option is invalid: a priority outside 1..3, a due date
\* that does not parse, a repeat interval that is not Nd with N in 1..365
\* or Nm with N in 1..12, a malformed or non-positive id.
InvalidValue(o, t) ==
    LET conv == strtol(o.optarg)
        len == Len(o.optarg)
    IN  CASE o.opt = "p" -> atoi(o.optarg) \notin 1..3
          [] o.opt \in {"u", "R"} -> parse_due_date(o.optarg, t) = 0
          [] o.opt = "r" ->
               ~ /\ len >= 2 /\ conv.end = len
                 /\ \/ o.optarg[len] \in {"d", "D"} /\ conv.val \in 1..365
                    \/ o.optarg[len] \in {"m", "M"} /\ conv.val \in 1..12
          [] o.opt \in {"C", "D"} -> parse_ids(o.optarg).ret # 0
          [] o.opt \in {"e", "S"} -> ~(conv.end = len + 1 /\ conv.val > 0)
          [] OTHER -> FALSE

HasInvalidValue(a, t) == \E k \in 1..Len(a) : InvalidValue(a[k], t)

\* C8: an invocation with an invalid option value changes nothing in the
\* store and exits non-zero.
C8_InvalidValueRejected ==
    [][ HasInvalidValue(argv', now) => /\ todos' = todos
                                       /\ pc' = "idle" => exit_code' # 0 ]_vars

\* The ids of an id list.
IdSet(ids) == {ids[k] : k \in 1..Len(ids)}

\* C9: a batch Complete over a list with present and absent ids completes
\* every present id, leaves the other todos as they were, sets the banner
\* to the number of todos it completed, and exits 0.
C9_BatchComplete ==
    [][ /\ pc = "idle" /\ pc' = "query" /\ v'.cmd = "CMD_COMPLETE" =>
            LET ids == IdSet(parse_ids(v'.complete_arg).ids)
            IN  (ids \cap DOMAIN todos # {} /\ ids \ DOMAIN todos # {}) =>
                    /\ DOMAIN todos' = DOMAIN todos
                    /\ \A id \in DOMAIN todos :
                          IF id \in ids THEN Completed(todos'[id])
                          ELSE todos'[id] = todos[id]
                    /\ last_command_msg' =
                          <<"Completed todo(s)", Cardinality(ids \cap DOMAIN todos)>>
        /\ pc = "render" /\ pc' = "idle" /\ v'.cmd = "CMD_COMPLETE" => exit_code' = 0
      ]_vars

\* C10: the Edit step changes, of the target todo, exactly the fields among
\* title, description, category, priority and due_date that the command
\* gave, and nothing of any other todo; on an absent id it changes nothing
\* and reports no update.
C10_UpdateFrame ==
    [][ pc = "idle" /\ pc' = "query" /\ v'.cmd = "CMD_EDIT" =>
            LET id == v'.target_id
                old == todos[id]
                new == todos'[id]
            IN  IF id \in DOMAIN todos
                THEN /\ DOMAIN todos' = DOMAIN todos
                     /\ \A j \in DOMAIN todos \ {id} : todos'[j] = todos[j]
                     /\ new.title = IF v'.edit_title # NULL THEN v'.edit_title ELSE old.title
                     /\ new.description = IF v'.description # NULL THEN v'.description
                                          ELSE old.description
                     /\ new.category = IF v'.category # NULL THEN v'.category
                                       ELSE old.category
                     /\ new.priority = IF v'.priority # 0 THEN v'.priority ELSE old.priority
                     /\ new.due_date = IF v'.due_date # 0 THEN v'.due_date ELSE old.due_date
                     /\ new.status = old.status
                     /\ new.created_at = old.created_at
                     /\ new.completed_at = old.completed_at
                     /\ new.repeat_days = old.repeat_days
                     /\ new.repeat_months = old.repeat_months
                     /\ new.spawned_next = old.spawned_next
                ELSE /\ todos' = todos
                     /\ last_command_msg' = <<>> ]_vars

\* An Edit has changed priority and due date of a repeating todo and kept
\* its title and its repeat interval.
C10_Witness ==
    /\ pc = "query" /\ v.cmd = "CMD_EDIT"
    /\ v.edit_title = NULL /\ v.priority # 0 /\ v.due_date # 0
    /\ v.target_id \in DOMAIN todos
    /\ last_command_msg = <<"Updated todo #", v.target_id>>
    /\ todos[v.target_id].priority = v.priority
    /\ todos[v.target_id].repeat_days # 0

\* The step in which cli_add has stored a todo.
AddStored == pc = "idle" /\ pc' = "query" /\ v'.cmd = "CMD_ADD" /\ autoinc' # autoinc

\* C11: db_get_todo_by_id of the id an Add returned yields the title,
\* description, category, priority, due date and repeat interval the Add
\* was given, with status Pending, completed_at unset and spawned_next
\* false.
C11_AddGetRoundTrip ==
    [][ AddStored =>
          LET got == db_get_todo_by_id(todos', autoinc')
          IN  /\ got.ret = 0
              /\ got.todo.id = autoinc'
              /\ got.todo.title = v'.add_title
              /\ v'.description # NULL => got.todo.description = v'.description
              /\ v'.category # NULL => got.todo.category = v'.category
              /\ v'.priority # 0 => got.todo.priority = v'.priority
              /\ v'.due_date # 0 => got.todo.due_date = v'.due_date
              /\ (v'.due_date = 0 /\ v'.repeat_days = 0 /\ v'.repeat_months = 0)
                    => got.todo.due_date = 0
              /\ got.todo.repeat_days = v'.repeat_days
              /\ got.todo.repeat_months = v'.repeat_months
              /\ got.todo.status = STATUS_PENDING
              /\ got.todo.completed_at = 0
              /\ got.todo.spawned_next = 0 ]_vars

\* An Add that gave category, priority and due date has stored its todo.
C11_Witness ==
    /\ pc = "query" /\ v.cmd = "CMD_ADD"
    /\ v.category = <<"W">> /\ v.priority = 3 /\ v.due_date > now
    /\ autoinc \in DOMAIN todos
    /\ last_command_msg = <<"Added todo #", autoinc>>
    /\ todos[autoinc].category = <<"W">>

\* C12: an Add given priority 0 stores priority Medium, and an Add given
\* no category or the empty string as category stores category "General".
C12_AddDefaults ==
    [][ AddStored =>
          /\ v'.priority = 0 => todos'[autoinc'].priority = PRIORITY_MEDIUM
          /\ (v'.category = NULL \/ v'.category = <<>>)
                => todos'[autoinc'].category = General ]_vars

\* The command line gives a priority outside 1..3.
BadPriority(a) ==
    \E k \in 1..Len(a) : a[k].opt = "p" /\ atoi(a[k].optarg) \notin 1..3

\* C13: every stored todo has priority 1, 2 or 3, and an invocation that
\* gives a priority outside that set stores nothing and exits 1.
C13_PriorityInRange ==
    [][ /\ \A id \in DOMAIN todos' : todos'[id].priority \in 1..3
        /\ (pc = "idle" /\ ninv' # ninv /\ BadPriority(argv'))
              => todos' = todos /\ pc' = "idle" /\ exit_code' = 1 ]_vars

\* An Add with priority 4 was rejected while the store holds a todo of
\* priority 3 and one of priority 2.
C13_Witness ==
    /\ pc = "idle" /\ exit_code = 1 /\ BadPriority(argv)
    /\ v.cmd = "CMD_NONE" /\ v.priority = 4
    /\ \E i \in DOMAIN todos, j \in DOMAIN todos :
          todos[i].priority = 3 /\ todos[j].priority = 2

\* The filter of the list view just printed: the one of the command line
\* for List, none after Add, Complete, Delete and Edit.
FilterCategory == IF v.cmd = "CMD_LIST" THEN v.category ELSE NULL

FilterStatus ==
    IF v.cmd = "CMD_LIST" /\ v.status_str = pending THEN STATUS_PENDING
    ELSE IF v.cmd = "CMD_LIST" /\ v.status_str = completed THEN STATUS_COMPLETED
    ELSE STATUS_ALL

\* The elements of a sequence.
Range(s) == {s[k] : k \in 1..Len(s)}

C15_CompletedSince ==
    out.view = "completed" =>
        /\ Range(out.items) =
              {id \in DOMAIN todos :
                  /\ todos[id].status = STATUS_COMPLETED
                  /\ todos[id].completed_at >= v.since_date}
        /\ out.count = Cardinality(Range(out.items))
        /\ \A i \in 1..Len(out.items), j \in 1..Len(out.items) :
              i < j => todos[out.items[i]].completed_at >=
                       todos[out.items[j]].completed_at

\* The seconds of a day.
DaySeconds == 24 * 60 * 60

\* The first seconds of the days of the instants of the model.
DayStarts == {t - (t % DaySeconds) : t \in Instants}

\* Whether a sequence of ids holds exactly the Pending todos with a due
\* date between start and end, both included, in ascending due_date order.
IsDueRange(items, start, end) ==
    /\ Range(items) = {id \in DOMAIN todos : /\ todos[id].status = STATUS_PENDING
                                             /\ todos[id].due_date # 0
                                             /\ start <= todos[id].due_date
                                             /\ todos[id].due_date <= end}
    /\ \A i \in 1..Len(items), j \in 1..Len(items) :
          i < j => todos[items[i]].due_date <= todos[items[j]].due_date

InSections(frame) ==
    UNION {Range(frame.sections[c].items) : c \in DOMAIN frame.sections}

\* C17: the list view shows a Completed todo of its query result exactly
\* when it was completed within the last 24 hours; the older ones are in no
\* section and not in the count of the summary line, and the completed-since
\* query still returns them for any date at or before their completed_at.
C17_RecentCompletedShown ==
    [][(pc = "render" /\ pc' = "idle" /\ out'.view = "list") =>
          /\ \A k \in 1..Len(out'.items) :
                LET id == out'.items[k] IN
                todos[id].status = STATUS_COMPLETED =>
                    /\ id \in InSections(out') <=>
                          todos[id].completed_at >= now - DaySeconds
                    /\ id \notin InSections(out') =>
                          \A t \in {0, todos[id].completed_at} \cup DayStarts :
                              t <= todos[id].completed_at =>
                                  id \in Range(Ids(db_get_completed_since(todos, t)))
          /\ out'.count =
                Cardinality({id \in Range(out'.items) :
                    \/ todos[id].status = STATUS_PENDING
                    \/ todos[id].completed_at >= now - DaySeconds})]_vars

\* A list view has left a Completed todo of its query result out of its
\* sections and of its count.
C17_Witness ==
    /\ out.view = "list" /\ pc = "idle"
    /\ \E id \in Range(out.items) :
          /\ todos[id].status = STATUS_COMPLETED
          /\ id \notin InSections(out)
    /\ out.count < Len(out.items)

\* C18: the Upcoming section of the list view holds exactly the Pending
\* todos of the query result that are due after now and at most 72 hours
\* from now, in the order of the query result, so no Completed, overdue or
\* undated todo is in it, and it is empty (not printed) when there is none.
C18_UpcomingSection ==
    [][(pc = "render" /\ pc' = "idle" /\ out'.view = "list") =>
          /\ out'.upcoming =
                SelectSeq(out'.items, LAMBDA id :
                    /\ todos[id].status = STATUS_PENDING
                    /\ now < todos[id].due_date
                    /\ todos[id].due_date <= now + 72 * 60 * 60)
          /\ \A id \in Range(out'.upcoming) :
                /\ todos[id].status # STATUS_COMPLETED
                /\ todos[id].due_date # 0
                /\ todos[id].due_date >= now]_vars

\* A list view has printed an Upcoming section and left a Pending todo
\* with a due date out of it.
C18_Witness ==
    /\ out.view = "list" /\ pc = "idle"
    /\ Len(out.upcoming) >= 1
    /\ \E id \in Range(out.items) \ Range(out.upcoming) :
          todos[id].status = STATUS_PENDING /\ todos[id].due_date # 0

\* The commands followed by the list view.
Mutating == {"CMD_ADD", "CMD_COMPLETE", "CMD_DELETE", "CMD_EDIT"}

\* Whether the step of a mutating command did what the command asks: Add
\* inserted a todo, Complete completed a listed todo, Delete deleted one,
\* Edit updated the fields given of a todo of the store.
Succeeded ==
    CASE v'.cmd = "CMD_ADD" -> autoinc' # autoinc
      [] v'.cmd = "CMD_COMPLETE" ->
            IdSet(parse_ids(v'.complete_arg).ids) \cap DOMAIN todos # {}
      [] v'.cmd = "CMD_DELETE" -> DOMAIN todos' # DOMAIN todos
      [] v'.cmd = "CMD_EDIT" ->
            /\ v'.target_id \in DOMAIN todos
            /\ \/ v'.edit_title # NULL \/ v'.description # NULL \/ v'.category # NULL
               \/ v'.priority # 0 \/ v'.due_date # 0

\* C19: Add, Complete, Delete and Edit set the banner exactly when they
\* succeed; the banner is kept until the unfiltered list view that follows,
\* which prints it and clears it; the list view of a List command prints
\* no banner.
C19_BannerOnce ==
    [][ /\ (pc = "idle" /\ pc' = "query" /\ v'.cmd \in Mutating) =>
               (last_command_msg' # <<>> <=> Succeeded)
        /\ (pc # "idle" /\ ~(pc = "render" /\ pc' = "idle")) =>
               last_command_msg' = last_command_msg
        /\ (pc = "render" /\ pc' = "idle" /\ v.cmd \in Mutating) =>
               /\ out'.view = "list"
               /\ out'.banner = last_command_msg
               /\ Range(out'.items) = DOMAIN todos
               /\ last_command_msg' = <<>>
        /\ (pc = "render" /\ pc' = "idle" /\ v.cmd = "CMD_LIST") =>
               out'.banner = <<>> ]_vars

\* The list view that follows a mutating command has printed its banner
\* and cleared it.
C19_Witness ==
    /\ pc = "idle" /\ v.cmd \in Mutating
    /\ out.view = "list" /\ out.banner # <<>>
    /\ last_command_msg = <<>>

\* C20: a command that fails writes nothing to stdout: an invocation that
\* exits 1 on an invalid option value, a Show of an absent todo, and an
\* Add, Complete, Delete or Edit that did not succeed and so set no banner,
\* which does not render the list view.
C20_NoStdoutOnFailure ==
    [][ /\ (pc = "idle" /\ pc' = "idle" /\ ninv' # ninv /\ exit_code' = 1
              /\ v'.cmd # "CMD_NONE") => out' = NoOutput
        /\ (pc = "idle" /\ pc' = "idle" /\ ninv' # ninv /\ v'.cmd = "CMD_SHOW"
              /\ v'.ret = -1 /\ v'.target_id \notin DOMAIN todos) => out' = NoOutput
        /\ (pc = "render" /\ pc' = "idle" /\ v.cmd \in Mutating
              /\ last_command_msg = <<>>) => out' = NoOutput ]_vars

\* The elements of a comma-separated list, the empty ones included: the
\* k-th one lies between the (k-1)-th and the k-th comma.
SplitAll(s) ==
    LET commas == {p \in 1..Len(s) : s[p] = ","}
        bounds == [k \in 0..(Cardinality(commas) + 1) |->
                      IF k = 0 THEN 0
                      ELSE IF k = Cardinality(commas) + 1 THEN Len(s) + 1
                      ELSE CHOOSE p \in commas :
                               Cardinality({q \in commas : q < p}) = k - 1]
    IN  [k \in 1..(Cardinality(commas) + 1) |->
            SubSeq(s, bounds[k - 1] + 1, bounds[k] - 1)]

\* An element without the spaces around it.
Strip(e) ==
    LET inside == {k \in 1..Len(e) : e[k] # " "}
    IN  IF inside = {} THEN <<>>
        ELSE SubSeq(e, CHOOSE k \in inside : \A j \in inside : k <= j,
                       CHOOSE k \in inside : \A j \in inside : k >= j)

\* The number a string of digits denotes.
RECURSIVE Decimal(_, _)
Decimal(e, n) == IF n = 0 THEN 0 ELSE 10 * Decimal(e, n - 1) + DigitVal(e[n])

IsPositiveInteger(e) ==
    /\ Len(e) > 0
    /\ \A k \in 1..Len(e) : IsDigit(e[k])
    /\ Decimal(e, Len(e)) > 0

\* The elements of a bracket list, between its first and last character.
BracketElements(arg) == SplitAll(SubSeq(arg, 2, Len(arg) - 1))

\* C23: parse_ids accepts a bracket list exactly when it is closed by ']',
\* holds between 1 and 100 elements, none empty, and every element without
\* the spaces around it is a positive integer; the ids of an accepted list
\* are its elements in input order.
C23_BracketList ==
    \A arg \in {v.complete_arg, v.delete_arg} :
        (arg # NULL /\ Len(arg) > 0 /\ arg[1] = "[") =>
            /\ parse_ids(arg).ret = 0 <=>
                  /\ Len(arg) >= 2 /\ arg[Len(arg)] = "]"
                  /\ Len(BracketElements(arg)) \in 1..MAX_IDS
                  /\ \A k \in 1..Len(BracketElements(arg)) :
                        IsPositiveInteger(Strip(BracketElements(arg)[k]))
            /\ parse_ids(arg).ret = 0 =>
                  parse_ids(arg).ids =
                      [k \in 1..Len(BracketElements(arg)) |->
                          Decimal(Strip(BracketElements(arg)[k]),
                                  Len(Strip(BracketElements(arg)[k])))]

\* The command each command flag names.
CommandOfFlag ==
    [a |-> "CMD_ADD", l |-> "CMD_LIST", C |-> "CMD_COMPLETE", D |-> "CMD_DELETE",
     e |-> "CMD_EDIT", S |-> "CMD_SHOW", R |-> "CMD_COMPLETED_SINCE",
     T |-> "CMD_TODAY", W |-> "CMD_WEEK", M |-> "CMD_MONTH", E |-> "CMD_SCHEDULE",
     h |-> "CMD_HELP", A |-> "CMD_CATEGORIES"]

\* The positions of the command flags of a command line.
CommandFlags(a) == {k \in 1..Len(a) : a[k].opt \in DOMAIN CommandOfFlag}

\* C24: the command of an invocation whose option loop ran to its end is
\* the one named by the first command flag of the command line.
C24_FirstCommandFlag ==
    (v.ret = -1 /\ CommandFlags(argv) # {}) =>
        v.cmd = CommandOfFlag[argv[CHOOSE k \in CommandFlags(argv) :
                                       \A j \in CommandFlags(argv) : k <= j].opt]

\* C25: a Complete over a todo that is already Completed succeeds, leaves
\* its status Completed and does not change its completed_at.
C25_CompleteIdempotent ==
    [][(pc = "idle" /\ pc' = "query" /\ v'.cmd = "CMD_COMPLETE") =>
          \A id \in IdSet(parse_ids(v'.complete_arg).ids) \cap DOMAIN todos :
              todos[id].status = STATUS_COMPLETED =>
                  /\ last_command_msg' # <<>>
                  /\ todos'[id].status = STATUS_COMPLETED
                  /\ todos'[id].completed_at = todos[id].completed_at]_vars

\* C27: the pass inserts, for a todo T of its list that repeats every d
\* days, exactly one todo, due at T.due_date + k * d * 86400 for the
\* smallest k >= 1 that makes it not less than now, and T has one successor
\* when the pass marks it; a weekly todo due 2025-01-20 23:59:59 gets a
\* successor due 2025-02-03 23:59:59 on 2025-01-28.
C27_SuccessorDueDate ==
    [][ /\ (pc = "insert" /\ pc' = "mark" /\ spawn_list[spawn_i].repeat_days > 0) =>
              LET T == spawn_list[spawn_i]
                  period == T.repeat_days * DaySeconds
              IN  /\ DOMAIN todos' = DOMAIN todos \cup {autoinc'}
                  /\ autoinc' \notin DOMAIN todos
                  /\ \A id \in DOMAIN todos : todos'[id] = todos[id]
                  /\ \E k \in 1..(IF now > T.due_date
                                   THEN (now - T.due_date) \div period + 1
                                   ELSE 1) :
                        /\ todos'[autoinc'].due_date = T.due_date + k * period
                        /\ T.due_date + k * period >= now
                        /\ k > 1 => T.due_date + (k - 1) * period < now
        /\ (pc = "mark" /\ pc' # "mark" /\ spawn_list[spawn_i].repeat_days > 0) =>
              Cardinality({s \in DOMAIN spawned_from :
                              spawned_from[s] = spawn_list[spawn_i].id}) = 1
        /\ next_due([due_date |-> 1737417599, repeat_days |-> 7, repeat_months |-> 0],
                    1738065600) = 1738627199 ]_vars

\* The pass has inserted the successor of a todo that repeats in days more
\* than one period after the todo's due date.
C27_Witness ==
    /\ pc = "mark"
    /\ spawn_list[spawn_i].repeat_days > 0
    /\ todos[autoinc].due_date >
          spawn_list[spawn_i].due_date + spawn_list[spawn_i].repeat_days * DaySeconds

\* C30: every stored todo that repeats, in days or in months, has a due
\* date.
C30_RepeatingHasDueDate ==
    \A id \in DOMAIN todos :
        (todos[id].repeat_days > 0 \/ todos[id].repeat_months > 0) =>
            todos[id].due_date # 0

\* A todo added with a repeat interval and no due date is due at the time
\* of the Add, and the pass has given it a successor with a due date.
C30_Witness ==
    \E s \in DOMAIN spawned_from :
        /\ spawned_from[s] \in DOMAIN todos /\ s \in DOMAIN todos
        /\ todos[spawned_from[s]].due_date = todos[spawned_from[s]].created_at
        /\ todos[s].repeat_days > 0 \/ todos[s].repeat_months > 0
        /\ todos[s].due_date > todos[spawned_from[s]].due_date

\* The todos the pass has inserted for T.
SuccessorsOf(T) == {s \in DOMAIN spawned_from : spawned_from[s] = T}

C29_ConcurrentPasses ==
    \A T \in DOMAIN todos : Cardinality(SuccessorsOf(T)) <= 1

\* C26: sqlite3_close is never called on a connection that is already
\* closed, and a process that opened the store has closed it when it ends.
C26_ClosedOnceOnSignal ==
    /\ ~sig.closed_twice
    /\ (~Running /\ sig.handle # "none") => sig.handle = "closed"

\* C21: every string print_bordered_wrapped hands to print_bordered with
\* wrap width 76 has visible length (bytes outside ESC[...m sequences
\* that are not UTF-8 continuation bytes) at most 76.
C21_LineFits ==
    \A i \in 1..Len(wrap.printed) : visible_strlen(wrap.printed[i]) <= 76

C21_Witness ==
    /\ wrap.pc = "done"
    /\ Len(wrap.printed) >= 3
    /\ wrap.prefix_codes # <<>>
    /\ \E i \in 1..Len(wrap.printed) : visible_strlen(wrap.printed[i]) = 76
    /\ \E i \in 1..Len(wrap.printed) : \E p \in 1..Len(wrap.printed[i]) :
           wrap.printed[i][p] = CONT

\* The bytes of str from p on that are outside ESC[...m sequences.
RECURSIVE VisibleContent(_, _)
VisibleContent(str, p) ==
    IF p > Len(str) THEN <<>>
    ELSE SubSeq(str, p, NextSequence(str, p) - 1)
         \o (IF NextSequence(str, p) > Len(str) THEN <<>>
             ELSE VisibleContent(str, SkipSequence(str, NextSequence(str, p))))

\* The visible content of the first n lines, with a space between two lines
\* where one was skipped.
RECURSIVE JoinLines(_)
JoinLines(n) ==
    IF n = 0 THEN <<>>
    ELSE JoinLines(n - 1)
         \o (IF n > 1 /\ wrap.skipped[n - 1] THEN <<" ">> ELSE <<>>)
         \o VisibleContent(wrap.printed[n], 1)

====
